---- MODULE Spec2Model ----
(***************************************************************************)
(* The free-calls pallet (pallets/free-calls/src/lib.rs) together with the *)
(* runtime's quota strategy (runtime/src/free_calls.rs): a multi-window    *)
(* rate limiter that lets a signed caller dispatch an inner call without   *)
(* a fee while every configured window still has room.                     *)
(*                                                                         *)
(* Option<T> is a sequence of length at most one: None is <<>>, Some(x)    *)
(* is <<x>>.  Balances are counted in CENTS (10^9 base units), the largest *)
(* unit that divides every amount the model uses, and held as wide         *)
(* integers (see below).                                                   *)
(***************************************************************************)
EXTENDS Integers, Sequences, FiniteSets, TLC

VARIABLES
    block_number,             \* frame_system::Pallet::block_number()
    WindowsConfig,            \* T::WindowsConfig, fixed after construction
    QuotaCalculationStrategy, \* T::QuotaCalculationStrategy, fixed after construction
    LockedInfoByAccount,      \* pallet_locker_mirror::LockedInfoByAccount
    WindowStatsByConsumer,    \* storage map consumer -> ConsumerStatsVec
    EligibleAccounts,         \* storage map account -> bool
    events,                   \* the events deposited so far
    last_call                 \* the last call handled and what it returned

vars == <<block_number, WindowsConfig, QuotaCalculationStrategy, LockedInfoByAccount,
          WindowStatsByConsumer, EligibleAccounts, events, last_call>>

-----------------------------------------------------------------------------
(* Bounds of the model *)

\* The block of the strategy's edge cases.
ExampleBlock == 100

\* A number of tokens whose quota passes NumberOfCalls::MAX at the lowest utilization.
LargeTokens == 43690

\* Longest event log explored.
MaxEvents == 2

\* Longest event log explored when a single consumer submits.
MaxConsumerEvents == 6

\* Declared weight of an inner call.
InnerCallWeight == 7

\* Locked amount, in whole DOLLARS, of the consumer that submits alone.
ConsumerLockedDollars == 20

\* Blocks 1..DenseBlocks are all visited; later blocks only around bucket boundaries.
DenseBlocks == 4

\* Largest locked amount, in whole DOLLARS.
MaxLockedDollars == 3

\* Block at which the later lock starts.
LockStart == 2

\* Number of blocks from the start of the later lock to its expiry.
LockLength == 3

-----------------------------------------------------------------------------
(* Option and integer helpers *)

None == <<>>

Some(x) == <<x>>

IsSome(o) == o /= <<>>

Min(a, b) == IF a < b THEN a ELSE b

Max(a, b) == IF a > b THEN a ELSE b

\* NumberOfCalls::MAX
U16_MAX == 65535

\* u16::saturating_add
saturating_add_u16(a, b) == Min(a + b, U16_MAX)

-----------------------------------------------------------------------------
(* Constants of the runtime *)

MILLISECS_PER_BLOCK == 6000

MINUTES == 60000 \div MILLISECS_PER_BLOCK

HOURS == MINUTES * 60

DAYS == HOURS * 24

WEEKS == DAYS * 7

MONTHS == DAYS * 30

\* currency::CENTS, the unit balances are counted in
CENTS == 1

\* currency::DOLLARS = UNITS = 100 CENTS
DOLLARS == 100 * CENTS

FREE_CALLS_PER_SUB == 10

\* RocksDbWeight: the cost of one storage read and of one storage write
RocksDbRead == 25000000

RocksDbWrite == 100000000

\* WeightInfo::try_free_call
WeightInfo_try_free_call == 101000000 + (4 * RocksDbRead) + (3 * RocksDbWrite)

\* T::FreeQuotaPerEligibleAccount
FreeQuotaPerEligibleAccount == 2

-----------------------------------------------------------------------------
(* Wide unsigned integers.  A Balance and a u64 do not fit the integers of the *)
(* model checker, so both are sequences of 16-bit digits, the lowest first,    *)
(* without leading zero digits; zero is the empty sequence.                    *)

\* The base of the digits.
LIMB == U16_MAX + 1

\* The wide integer equal to the small natural number n.
RECURSIVE Balance(_)
Balance(n) == IF n = 0 THEN << >> ELSE << n % LIMB >> \o Balance(n \div LIMB)

\* x without its leading zero digits.
RECURSIVE trim(_)
trim(x) == IF x /= << >> /\ x[Len(x)] = 0 THEN trim(SubSeq(x, 1, Len(x) - 1)) ELSE x

\* x * k + carry over the unbounded integers, for small k and carry.
RECURSIVE mul_small(_, _, _)
mul_small(x, k, carry) ==
    IF x = << >> THEN Balance(carry)
    ELSE LET p == (Head(x) * k) + carry
         IN << p % LIMB >> \o mul_small(Tail(x), k, p \div LIMB)

\* Quotient (digits not trimmed) and remainder of x by a small d > 0.
RECURSIVE div_rem_small(_, _)
div_rem_small(x, d) ==
    IF x = << >> THEN [q |-> << >>, r |-> 0]
    ELSE LET hi == div_rem_small(Tail(x), d)
             cur == (hi.r * LIMB) + Head(x)
         IN [q |-> << cur \div d >> \o hi.q, r |-> cur % d]

\* floor(x / d) over the unbounded integers.
div_small(x, d) == trim(div_rem_small(x, d).q)

\* x <= y for wide integers.
RECURSIVE wide_leq(_, _)
wide_leq(x, y) ==
    IF Len(x) /= Len(y) THEN Len(x) < Len(y)
    ELSE IF x = << >> THEN TRUE
    ELSE IF x[Len(x)] /= y[Len(y)] THEN x[Len(x)] < y[Len(y)]
    ELSE wide_leq(SubSeq(x, 1, Len(x) - 1), SubSeq(y, 1, Len(y) - 1))

\* The digits of a u64.
U64_DIGITS == 4

\* u64::MAX
U64_MAX == [i \in 1..U64_DIGITS |-> U16_MAX]

\* Balance::saturating_div by a non-zero divisor: the plain quotient
saturating_div(x, d) == div_small(x, d)

\* `x as u64`: the low 64 bits of x.
as_u64(x) == trim(SubSeq(x, 1, Min(U64_DIGITS, Len(x))))

\* u64::saturating_mul by a small factor
saturating_mul_u64(x, k) ==
    LET p == trim(mul_small(x, k, 0))
    IN IF Len(p) > U64_DIGITS THEN U64_MAX ELSE p

\* u64 -> NumberOfCalls: try_into().unwrap_or(NumberOfCalls::MAX)
try_into_u16_or_max(x) ==
    IF x = << >> THEN 0 ELSE IF Len(x) = 1 THEN x[1] ELSE U16_MAX

-----------------------------------------------------------------------------
(* Value types *)

\* The accounts: AccountId
Accounts == {1, 2}

Root == 0

Origins == Accounts \cup {Root}

\* WindowConfig::new(period, quota_ratio); a zero ratio cannot be constructed
WindowConfig(period, quota_ratio) == [period |-> period, quota_ratio |-> quota_ratio]

\* ConsumerStats::new counting the call that creates the entry.
ConsumerStats_counts_one(window_index) == [timeline_index |-> window_index, used_calls |-> 1]

\* ConsumerStats::new(window_index)
ConsumerStats(window_index) == [timeline_index |-> window_index, used_calls |-> 0]

FREE_CALLS_WINDOWS_CONFIG ==
    << WindowConfig(1 * DAYS, 1), WindowConfig(1 * HOURS, 3), WindowConfig(5 * MINUTES, 10) >>

\* The window configurations explored: none, a zero period alone and between two
\* proper windows, and two nested windows.
Configs ==
    { << >>,
      << WindowConfig(0, 1) >>,
      << WindowConfig(4, 2), WindowConfig(0, 1), WindowConfig(2, 3) >>,
      << WindowConfig(4, 1), WindowConfig(2, 2) >> }

\* The implementations of QuotaCalculationStrategy outside the tests.
Strategies == {"FreeCallsCalculationStrategy", "Unit"}

\* The inner calls submitted, by the pallet they belong to.
InnerCalls == {"Posts", "Balances"}

\* The outcomes of dispatching an inner call.
DispatchResults == {"Ok", "Err"}

\* LockedInfoOf<T>
LockedInfo(locked_at, locked_amount, expires_at) ==
    [locked_at |-> locked_at, locked_amount |-> locked_amount, expires_at |-> expires_at]

\* The locked-stake records the oracle reports: a lasting lock of the largest amount,
\* and a smaller lock that starts later and expires.
LockedInfos ==
    { LockedInfo(0, Balance(MaxLockedDollars * DOLLARS), None),
      LockedInfo(LockStart, Balance(1 * DOLLARS), Some(LockStart + LockLength)) }

FreeCallResult(who, result) == [event |-> "FreeCallResult", who |-> who, result |-> result]

EligibleAccountsAdded(n) == [event |-> "EligibleAccountsAdded", count |-> n]

-----------------------------------------------------------------------------
(* The call filter of the runtime *)

\* FreeCallsFilter::contains
FreeCallsFilter(c) ==
    CASE c = "Spaces" -> TRUE
      [] c = "SpaceFollows" -> TRUE
      [] c = "ProfileFollows" -> TRUE
      [] c = "Posts" -> TRUE
      [] c = "Reactions" -> TRUE
      [] OTHER -> FALSE

-----------------------------------------------------------------------------
(* Quota calculation strategies *)

\* get_utilization_percent counting every week up to the month.
get_utilization_percent_uncapped_weeks(lock_period) ==
    IF lock_period < 1 * WEEKS THEN 15
    ELSE IF lock_period < 1 * MONTHS
         THEN ((lock_period \div (1 * WEEKS)) * 5) + 25
         ELSE (Min(12, lock_period \div (1 * MONTHS)) * 5) + 40

\* get_utilization_percent counting every month, beyond the twelfth too.
get_utilization_percent_uncapped_months(lock_period) ==
    IF lock_period < 1 * WEEKS THEN 15
    ELSE IF lock_period < 1 * MONTHS
         THEN (Min(3, lock_period \div (1 * WEEKS)) * 5) + 25
         ELSE ((lock_period \div (1 * MONTHS)) * 5) + 40

\* get_utilization_percent, nested in FreeCallsCalculationStrategy::calculate
get_utilization_percent(lock_period) ==
    IF lock_period < 1 * WEEKS THEN 15
    ELSE IF lock_period < 1 * MONTHS
         THEN (Min(3, lock_period \div (1 * WEEKS)) * 5) + 25
         ELSE (Min(12, lock_period \div (1 * MONTHS)) * 5) + 40

\* The strategy with a lock still counting at the block it expires.
calculate_expiry_exclusive(consumer, current_block, locked_info) ==
    IF ~IsSome(locked_info) THEN None
    ELSE LET locked_at == locked_info[1].locked_at
             locked_amount == locked_info[1].locked_amount
             expires_at == locked_info[1].expires_at
         IN IF locked_at >= current_block THEN None
            ELSE IF IsSome(expires_at) /\ current_block > expires_at[1] THEN None
            ELSE LET lock_period == current_block - locked_at
                     utilization_percent == get_utilization_percent(lock_period)
                     num_of_tokens == as_u64(saturating_div(locked_amount, DOLLARS))
                     num_of_free_calls ==
                         saturating_div(
                             saturating_mul_u64(
                                 saturating_mul_u64(num_of_tokens, FREE_CALLS_PER_SUB),
                                 utilization_percent),
                             100)
                 IN Some(try_into_u16_or_max(num_of_free_calls))

\* FreeCallsCalculationStrategy::calculate
FreeCallsCalculationStrategy_calculate(consumer, current_block, locked_info) ==
    IF ~IsSome(locked_info) THEN None
    ELSE LET locked_at == locked_info[1].locked_at
             locked_amount == locked_info[1].locked_amount
             expires_at == locked_info[1].expires_at
         IN IF locked_at >= current_block THEN None
            ELSE IF IsSome(expires_at) /\ current_block >= expires_at[1] THEN None
            ELSE LET lock_period == current_block - locked_at
                     utilization_percent == get_utilization_percent(lock_period)
                     num_of_tokens == as_u64(saturating_div(locked_amount, DOLLARS))
                     num_of_free_calls ==
                         saturating_div(
                             saturating_mul_u64(
                                 saturating_mul_u64(num_of_tokens, FREE_CALLS_PER_SUB),
                                 utilization_percent),
                             100)
                 IN Some(try_into_u16_or_max(num_of_free_calls))

\* The fallback strategy granting the quota once any account is eligible.
Unit_calculate_any_eligible(consumer, current_block, locked_info) ==
    IF \E a \in Accounts : EligibleAccounts[a] THEN Some(FreeQuotaPerEligibleAccount) ELSE None

\* impl QuotaCalculationStrategy for ()
Unit_calculate(consumer, current_block, locked_info) ==
    IF EligibleAccounts[consumer] THEN Some(FreeQuotaPerEligibleAccount) ELSE None

\* TestQuotaCalculation with the closure |_, _| 5.into()
TestQuota5_calculate(consumer, current_block, locked_info) == Some(5)

\* T::QuotaCalculationStrategy::calculate
calculate(consumer, current_block, locked_info) ==
    CASE QuotaCalculationStrategy = "FreeCallsCalculationStrategy" ->
             FreeCallsCalculationStrategy_calculate(consumer, current_block, locked_info)
      [] QuotaCalculationStrategy = "Unit" ->
             Unit_calculate(consumer, current_block, locked_info)
      [] QuotaCalculationStrategy = "TestQuota5" ->
             TestQuota5_calculate(consumer, current_block, locked_info)

-----------------------------------------------------------------------------
(* The window engine *)

\* check_window comparing with <= : one call beyond the cap passes.
check_window_inclusive(current_block, quota, config, window_stats) ==
    IF config.period = 0 THEN None
    ELSE LET timeline_index == current_block \div config.period
             reset_stats == ConsumerStats(timeline_index)
             stored == IF IsSome(window_stats) THEN window_stats[1] ELSE reset_stats
             stats == IF stored.timeline_index < timeline_index THEN reset_stats ELSE stored
             can_be_called == stats.used_calls <= Max(1, quota \div config.quota_ratio)
         IN IF can_be_called
            THEN Some([stats EXCEPT !.used_calls = saturating_add_u16(@, 1)])
            ELSE None

\* check_window that never starts a new bucket.
check_window_no_reset(current_block, quota, config, window_stats) ==
    IF config.period = 0 THEN None
    ELSE LET timeline_index == current_block \div config.period
             reset_stats == ConsumerStats(timeline_index)
             stats == IF IsSome(window_stats) THEN window_stats[1] ELSE reset_stats
             can_be_called == stats.used_calls < Max(1, quota \div config.quota_ratio)
         IN IF can_be_called
            THEN Some([stats EXCEPT !.used_calls = saturating_add_u16(@, 1)])
            ELSE None

\* check_window that moves to the new bucket but keeps the old count.
check_window_keeps_count(current_block, quota, config, window_stats) ==
    IF config.period = 0 THEN None
    ELSE LET timeline_index == current_block \div config.period
             reset_stats == ConsumerStats(timeline_index)
             stored == IF IsSome(window_stats) THEN window_stats[1] ELSE reset_stats
             stats == IF stored.timeline_index < timeline_index
                      THEN [stored EXCEPT !.timeline_index = timeline_index] ELSE stored
             can_be_called == stats.used_calls < Max(1, quota \div config.quota_ratio)
         IN IF can_be_called
            THEN Some([stats EXCEPT !.used_calls = saturating_add_u16(@, 1)])
            ELSE None

\* check_window comparing the stored bucket with the block number, not the bucket.
check_window_per_block(current_block, quota, config, window_stats) ==
    IF config.period = 0 THEN None
    ELSE LET timeline_index == current_block \div config.period
             reset_stats == ConsumerStats(timeline_index)
             stored == IF IsSome(window_stats) THEN window_stats[1] ELSE reset_stats
             stats == IF stored.timeline_index < current_block THEN reset_stats ELSE stored
             can_be_called == stats.used_calls < Max(1, quota \div config.quota_ratio)
         IN IF can_be_called
            THEN Some([stats EXCEPT !.used_calls = saturating_add_u16(@, 1)])
            ELSE None

\* check_window without the zero check: a zero period counts as one endless bucket.
check_window_zero_period_passes(current_block, quota, config, window_stats) ==
    LET timeline_index == IF config.period = 0 THEN 0 ELSE current_block \div config.period
        reset_stats == ConsumerStats(timeline_index)
        stored == IF IsSome(window_stats) THEN window_stats[1] ELSE reset_stats
        stats == IF stored.timeline_index < timeline_index THEN reset_stats ELSE stored
        can_be_called == stats.used_calls < Max(1, quota \div config.quota_ratio)
    IN IF can_be_called
       THEN Some([stats EXCEPT !.used_calls = saturating_add_u16(@, 1)])
       ELSE None

\* check_window without the floor of one call: the cap is quota / quota_ratio.
check_window_no_floor(current_block, quota, config, window_stats) ==
    IF config.period = 0 THEN None
    ELSE LET timeline_index == current_block \div config.period
             reset_stats == ConsumerStats(timeline_index)
             stored == IF IsSome(window_stats) THEN window_stats[1] ELSE reset_stats
             stats == IF stored.timeline_index < timeline_index THEN reset_stats ELSE stored
             can_be_called == stats.used_calls < (quota \div config.quota_ratio)
         IN IF can_be_called
            THEN Some([stats EXCEPT !.used_calls = saturating_add_u16(@, 1)])
            ELSE None

\* check_window numbering the buckets from one: the bucket after floor(t / period).
check_window_next_bucket(current_block, quota, config, window_stats) ==
    IF config.period = 0 THEN None
    ELSE LET timeline_index == (current_block \div config.period) + 1
             reset_stats == ConsumerStats(timeline_index)
             stored == IF IsSome(window_stats) THEN window_stats[1] ELSE reset_stats
             stats == IF stored.timeline_index < timeline_index THEN reset_stats ELSE stored
             can_be_called == stats.used_calls < Max(1, quota \div config.quota_ratio)
         IN IF can_be_called
            THEN Some([stats EXCEPT !.used_calls = saturating_add_u16(@, 1)])
            ELSE None

\* check_window starting afresh whenever the stored bucket is another one, later
\* ones included.
check_window_resets_other_bucket(current_block, quota, config, window_stats) ==
    IF config.period = 0 THEN None
    ELSE LET timeline_index == current_block \div config.period
             reset_stats == ConsumerStats(timeline_index)
             stored == IF IsSome(window_stats) THEN window_stats[1] ELSE reset_stats
             stats == IF stored.timeline_index /= timeline_index THEN reset_stats ELSE stored
             can_be_called == stats.used_calls < Max(1, quota \div config.quota_ratio)
         IN IF can_be_called
            THEN Some([stats EXCEPT !.used_calls = saturating_add_u16(@, 1)])
            ELSE None

\* check_window returning the stats as they were, without counting the call.
check_window_no_increment(current_block, quota, config, window_stats) ==
    IF config.period = 0 THEN None
    ELSE LET timeline_index == current_block \div config.period
             reset_stats == ConsumerStats(timeline_index)
             stored == IF IsSome(window_stats) THEN window_stats[1] ELSE reset_stats
             stats == IF stored.timeline_index < timeline_index THEN reset_stats ELSE stored
             can_be_called == stats.used_calls < Max(1, quota \div config.quota_ratio)
         IN IF can_be_called THEN Some(stats) ELSE None

\* Pallet::check_window
check_window(current_block, quota, config, window_stats) ==
    IF config.period = 0 THEN None
    ELSE LET timeline_index == current_block \div config.period
             reset_stats == ConsumerStats(timeline_index)
             stored == IF IsSome(window_stats) THEN window_stats[1] ELSE reset_stats
             stats == IF stored.timeline_index < timeline_index THEN reset_stats ELSE stored
             can_be_called == stats.used_calls < Max(1, quota \div config.quota_ratio)
         IN IF can_be_called
            THEN Some([stats EXCEPT !.used_calls = saturating_add_u16(@, 1)])
            ELSE None

\* WindowsConfigSize::get, the bound of ConsumerStatsVec
WindowsConfigSize == Len(WindowsConfig)

\* BoundedVec::get
vec_get(v, index) == IF index <= Len(v) THEN Some(v[index]) ELSE None

\* The loop skipping a window that has no room, instead of giving up.
RECURSIVE check_windows_skips_full(_, _, _, _, _)
check_windows_skips_full(config_index, current_block, quota, old_stats, new_stats) ==
    IF config_index > Len(WindowsConfig) THEN Some(new_stats)
    ELSE LET old_window_stats == vec_get(old_stats, config_index)
             new_window_stats ==
                 check_window(current_block, quota, WindowsConfig[config_index], old_window_stats)
             kept == IF IsSome(new_window_stats) THEN new_window_stats ELSE old_window_stats
         IN IF ~IsSome(kept) THEN None
            ELSE check_windows_skips_full(config_index + 1, current_block, quota, old_stats,
                                          Append(new_stats, kept[1]))

\* The loop leaving after the first window it checked.
RECURSIVE check_windows_first_only(_, _, _, _, _)
check_windows_first_only(config_index, current_block, quota, old_stats, new_stats) ==
    IF config_index > Min(1, Len(WindowsConfig)) THEN Some(new_stats)
    ELSE LET new_window_stats ==
                 check_window(current_block, quota, WindowsConfig[config_index],
                              vec_get(old_stats, config_index))
         IN IF ~IsSome(new_window_stats) THEN None
            ELSE IF Len(new_stats) >= WindowsConfigSize THEN None
            ELSE check_windows_first_only(config_index + 1, current_block, quota, old_stats,
                                          Append(new_stats, new_window_stats[1]))

\* The loop handing check_window the stored entry of the window before.
RECURSIVE check_windows_previous_entry(_, _, _, _, _)
check_windows_previous_entry(config_index, current_block, quota, old_stats, new_stats) ==
    IF config_index > Len(WindowsConfig) THEN Some(new_stats)
    ELSE LET new_window_stats ==
                 check_window(current_block, quota, WindowsConfig[config_index],
                              IF config_index = 1 THEN None
                              ELSE vec_get(old_stats, config_index - 1))
         IN IF ~IsSome(new_window_stats) THEN None
            ELSE IF Len(new_stats) >= WindowsConfigSize THEN None
            ELSE check_windows_previous_entry(config_index + 1, current_block, quota,
                                              old_stats, Append(new_stats, new_window_stats[1]))

\* The loop of can_make_free_call from window config_index on.
RECURSIVE check_windows(_, _, _, _, _)
check_windows(config_index, current_block, quota, old_stats, new_stats) ==
    IF config_index > Len(WindowsConfig) THEN Some(new_stats)
    ELSE LET new_window_stats ==
                 check_window(current_block, quota, WindowsConfig[config_index],
                              vec_get(old_stats, config_index))
         IN IF ~IsSome(new_window_stats) THEN None
            ELSE IF Len(new_stats) >= WindowsConfigSize THEN None
            ELSE check_windows(config_index + 1, current_block, quota, old_stats,
                               Append(new_stats, new_window_stats[1]))

\* can_make_free_call without the check for an empty configuration.
can_make_free_call_allows_empty(consumer) ==
    LET current_block == block_number
        locked_info == LockedInfoByAccount[consumer]
        quota == calculate(consumer, current_block, locked_info)
    IN IF ~(IsSome(quota) /\ quota[1] > 0) THEN None
       ELSE check_windows(1, current_block, quota[1], WindowStatsByConsumer[consumer], << >>)

\* can_make_free_call taking any quota the strategy yields, zero included.
can_make_free_call_zero_quota(consumer) ==
    LET current_block == block_number
        locked_info == LockedInfoByAccount[consumer]
        quota == calculate(consumer, current_block, locked_info)
    IN IF Len(WindowsConfig) = 0 THEN None
       ELSE IF ~IsSome(quota) THEN None
       ELSE check_windows(1, current_block, quota[1], WindowStatsByConsumer[consumer], << >>)

\* can_make_free_call asking the strategy without the stored locked-stake record.
can_make_free_call_no_locked_info(consumer) ==
    LET current_block == block_number
        quota == calculate(consumer, current_block, None)
    IN IF Len(WindowsConfig) = 0 THEN None
       ELSE IF ~(IsSome(quota) /\ quota[1] > 0) THEN None
       ELSE check_windows(1, current_block, quota[1], WindowStatsByConsumer[consumer], << >>)

\* Pallet::can_make_free_call
can_make_free_call(consumer) ==
    LET current_block == block_number
    IN IF Len(WindowsConfig) = 0 THEN None
       ELSE LET locked_info == LockedInfoByAccount[consumer]
                quota == calculate(consumer, current_block, locked_info)
            IN IF ~(IsSome(quota) /\ quota[1] > 0) THEN None
               ELSE check_windows(1, current_block, quota[1],
                                  WindowStatsByConsumer[consumer], << >>)

-----------------------------------------------------------------------------
(* Calls and origins *)

\* Call::try_free_call { call }
TryFreeCall(call) == [pallet |-> "FreeCalls", function |-> "try_free_call", call |-> call]

\* Call::add_eligible_accounts, and the calls of the other pallets
OtherCall(pallet, function) == [pallet |-> pallet, function |-> function]

\* The extrinsics handed to the signed extension.
Extrinsics ==
    { TryFreeCall(c) : c \in InnerCalls }
        \cup { OtherCall("FreeCalls", "add_eligible_accounts"), OtherCall("Posts", "create_post") }

\* The account lists handed to add_eligible_accounts.
EligibleLists == { <<a>> : a \in Accounts } \cup { <<1, 2>> }

\* The blocks at which something happens: the first blocks and, for every window,
\* the last block of its first bucket and the first block of its second.
BlockSamples ==
    (1..DenseBlocks)
        \cup UNION { { WindowsConfig[i].period - 1, WindowsConfig[i].period } :
                       i \in { j \in 1..Len(WindowsConfig) : WindowsConfig[j].period > 1 } }

-----------------------------------------------------------------------------
(* Construction *)

Init ==
    /\ block_number = 1
    /\ WindowsConfig \in Configs
    /\ QuotaCalculationStrategy \in Strategies
    /\ LockedInfoByAccount = [a \in Accounts |-> None]
    /\ WindowStatsByConsumer = [a \in Accounts |-> << >>]
    /\ EligibleAccounts = [a \in Accounts |-> FALSE]
    /\ events = << >>
    /\ last_call = [ext |-> "none"]

-----------------------------------------------------------------------------
(* The environment: block production and the locked-stake oracle *)

\* The chain moves on to block n.
set_block_number(n) ==
    /\ n > block_number
    /\ block_number' = n
    /\ last_call' = [ext |-> "none"]
    /\ UNCHANGED <<WindowsConfig, QuotaCalculationStrategy, LockedInfoByAccount,
                   WindowStatsByConsumer, EligibleAccounts, events>>

\* LockedInfoByAccount::insert(account, locked_info)
set_locked_info(account, locked_info) ==
    /\ LockedInfoByAccount' = [LockedInfoByAccount EXCEPT ![account] = Some(locked_info)]
    /\ last_call' = [ext |-> "none"]
    /\ UNCHANGED <<block_number, WindowsConfig, QuotaCalculationStrategy,
                   WindowStatsByConsumer, EligibleAccounts, events>>

-----------------------------------------------------------------------------
(* The pallet's calls *)

\* update_consumer_stats losing the write.
update_consumer_stats_lost(consumer, new_stats) == WindowStatsByConsumer

\* update_consumer_stats storing the new stats under every account.
update_consumer_stats_every_account(consumer, new_stats) ==
    [a \in Accounts |-> new_stats]

\* Pallet::update_consumer_stats
update_consumer_stats(consumer, new_stats) ==
    [WindowStatsByConsumer EXCEPT ![consumer] = new_stats]

\* The admission decision without the filter.
maybe_new_stats_ignores_filter(consumer, call) == can_make_free_call(consumer)

\* The admission decision of try_free_call: the filter, then can_make_free_call.
maybe_new_stats(consumer, call) ==
    IF FreeCallsFilter(call) THEN can_make_free_call(consumer) ELSE None

\* call.get_dispatch_info().weight
get_dispatch_info_weight(call) == InnerCallWeight

\* extract_actual_weight(&result, &info): no inner call reports a smaller weight
extract_actual_weight(result, info_weight) == info_weight

\* try_free_call reporting its own weight only, never the inner call's.
try_free_call_fixed_weight(origin, call) ==
    IF origin = Root
    THEN /\ last_call' = [ext |-> "try_free_call", origin |-> origin, call |-> call,
                          result |-> "BadOrigin", actual_weight |-> None, pays_fee |-> "Yes"]
         /\ UNCHANGED <<block_number, WindowsConfig, QuotaCalculationStrategy,
                        LockedInfoByAccount, WindowStatsByConsumer, EligibleAccounts, events>>
    ELSE LET consumer == origin
             new_stats == maybe_new_stats(consumer, call)
         IN /\ IF IsSome(new_stats)
               THEN /\ WindowStatsByConsumer' = update_consumer_stats(consumer, new_stats[1])
                    /\ \E result \in DispatchResults :
                           events' = Append(events, FreeCallResult(consumer, result))
               ELSE UNCHANGED <<WindowStatsByConsumer, events>>
            /\ last_call' =
                   [ext |-> "try_free_call", origin |-> origin, call |-> call,
                    result |-> "Ok", actual_weight |-> Some(WeightInfo_try_free_call),
                    pays_fee |-> "No"]
            /\ UNCHANGED <<block_number, WindowsConfig, QuotaCalculationStrategy,
                           LockedInfoByAccount, EligibleAccounts>>

\* try_free_call giving the call back when the inner call fails: the stats are
\* committed only for an inner call that succeeded.
try_free_call_refunds_on_error(origin, call) ==
    IF origin = Root
    THEN /\ last_call' = [ext |-> "try_free_call", origin |-> origin, call |-> call,
                          result |-> "BadOrigin", actual_weight |-> None, pays_fee |-> "Yes"]
         /\ UNCHANGED <<block_number, WindowsConfig, QuotaCalculationStrategy,
                        LockedInfoByAccount, WindowStatsByConsumer, EligibleAccounts, events>>
    ELSE LET consumer == origin
             new_stats == maybe_new_stats(consumer, call)
         IN /\ IF IsSome(new_stats)
               THEN \E result \in DispatchResults :
                        /\ WindowStatsByConsumer' =
                               IF result = "Ok"
                               THEN update_consumer_stats(consumer, new_stats[1])
                               ELSE WindowStatsByConsumer
                        /\ events' = Append(events, FreeCallResult(consumer, result))
                        /\ last_call' =
                               [ext |-> "try_free_call", origin |-> origin, call |-> call,
                                result |-> "Ok",
                                actual_weight |->
                                    Some(WeightInfo_try_free_call
                                            + extract_actual_weight(result,
                                                  get_dispatch_info_weight(call))),
                                pays_fee |-> "No"]
               ELSE /\ UNCHANGED <<WindowStatsByConsumer, events>>
                    /\ last_call' =
                           [ext |-> "try_free_call", origin |-> origin, call |-> call,
                            result |-> "Ok", actual_weight |-> Some(WeightInfo_try_free_call),
                            pays_fee |-> "No"]
            /\ UNCHANGED <<block_number, WindowsConfig, QuotaCalculationStrategy,
                           LockedInfoByAccount, EligibleAccounts>>

\* try_free_call depositing FreeCallResult only for an inner call that succeeded.
try_free_call_event_on_success(origin, call) ==
    IF origin = Root
    THEN /\ last_call' = [ext |-> "try_free_call", origin |-> origin, call |-> call,
                          result |-> "BadOrigin", actual_weight |-> None, pays_fee |-> "Yes"]
         /\ UNCHANGED <<block_number, WindowsConfig, QuotaCalculationStrategy,
                        LockedInfoByAccount, WindowStatsByConsumer, EligibleAccounts, events>>
    ELSE LET consumer == origin
             new_stats == maybe_new_stats(consumer, call)
         IN /\ IF IsSome(new_stats)
               THEN /\ WindowStatsByConsumer' = update_consumer_stats(consumer, new_stats[1])
                    /\ \E result \in DispatchResults :
                        /\ events' = IF result = "Ok"
                                     THEN Append(events, FreeCallResult(consumer, result))
                                     ELSE events
                        /\ last_call' =
                               [ext |-> "try_free_call", origin |-> origin, call |-> call,
                                result |-> "Ok",
                                actual_weight |->
                                    Some(WeightInfo_try_free_call
                                            + extract_actual_weight(result,
                                                  get_dispatch_info_weight(call))),
                                pays_fee |-> "No"]
               ELSE /\ UNCHANGED <<WindowStatsByConsumer, events>>
                    /\ last_call' =
                           [ext |-> "try_free_call", origin |-> origin, call |-> call,
                            result |-> "Ok", actual_weight |-> Some(WeightInfo_try_free_call),
                            pays_fee |-> "No"]
            /\ UNCHANGED <<block_number, WindowsConfig, QuotaCalculationStrategy,
                           LockedInfoByAccount, EligibleAccounts>>

\* Pallet::try_free_call
try_free_call(origin, call) ==
    IF origin = Root
    THEN /\ last_call' = [ext |-> "try_free_call", origin |-> origin, call |-> call,
                          result |-> "BadOrigin", actual_weight |-> None, pays_fee |-> "Yes"]
         /\ UNCHANGED <<block_number, WindowsConfig, QuotaCalculationStrategy,
                        LockedInfoByAccount, WindowStatsByConsumer, EligibleAccounts, events>>
    ELSE LET consumer == origin
             new_stats == maybe_new_stats(consumer, call)
         IN /\ IF IsSome(new_stats)
               THEN /\ WindowStatsByConsumer' = update_consumer_stats(consumer, new_stats[1])
                    /\ \E result \in DispatchResults :
                        LET info_weight == get_dispatch_info_weight(call)
                            actual_weight ==
                                WeightInfo_try_free_call
                                    + extract_actual_weight(result, info_weight)
                        IN /\ events' = Append(events, FreeCallResult(consumer, result))
                           /\ last_call' =
                                  [ext |-> "try_free_call", origin |-> origin, call |-> call,
                                   result |-> "Ok", actual_weight |-> Some(actual_weight),
                                   pays_fee |-> "No"]
               ELSE /\ UNCHANGED <<WindowStatsByConsumer, events>>
                    /\ last_call' =
                           [ext |-> "try_free_call", origin |-> origin, call |-> call,
                            result |-> "Ok", actual_weight |-> Some(WeightInfo_try_free_call),
                            pays_fee |-> "No"]
            /\ UNCHANGED <<block_number, WindowsConfig, QuotaCalculationStrategy,
                           LockedInfoByAccount, EligibleAccounts>>

\* add_eligible_accounts clearing the window stats of the accounts it lists.
add_eligible_accounts_clears_stats(origin, eligible_accounts) ==
    IF origin /= Root
    THEN /\ last_call' = [ext |-> "add_eligible_accounts", ret |-> "BadOrigin"]
         /\ UNCHANGED <<block_number, WindowsConfig, QuotaCalculationStrategy,
                        LockedInfoByAccount, WindowStatsByConsumer, EligibleAccounts, events>>
    ELSE /\ EligibleAccounts' =
                [a \in Accounts |->
                    IF \E i \in 1..Len(eligible_accounts) : eligible_accounts[i] = a
                    THEN TRUE ELSE EligibleAccounts[a]]
         /\ WindowStatsByConsumer' =
                [a \in Accounts |->
                    IF \E i \in 1..Len(eligible_accounts) : eligible_accounts[i] = a
                    THEN << >> ELSE WindowStatsByConsumer[a]]
         /\ events' = Append(events, EligibleAccountsAdded(Len(eligible_accounts)))
         /\ last_call' = [ext |-> "add_eligible_accounts", ret |-> "Ok"]
         /\ UNCHANGED <<block_number, WindowsConfig, QuotaCalculationStrategy,
                        LockedInfoByAccount>>

\* Pallet::add_eligible_accounts
add_eligible_accounts(origin, eligible_accounts) ==
    IF origin /= Root
    THEN /\ last_call' = [ext |-> "add_eligible_accounts", ret |-> "BadOrigin"]
         /\ UNCHANGED <<block_number, WindowsConfig, QuotaCalculationStrategy,
                        LockedInfoByAccount, WindowStatsByConsumer, EligibleAccounts, events>>
    ELSE /\ EligibleAccounts' =
                [a \in Accounts |->
                    IF \E i \in 1..Len(eligible_accounts) : eligible_accounts[i] = a
                    THEN TRUE ELSE EligibleAccounts[a]]
         /\ events' = Append(events, EligibleAccountsAdded(Len(eligible_accounts)))
         /\ last_call' = [ext |-> "add_eligible_accounts", ret |-> "Ok"]
         /\ UNCHANGED <<block_number, WindowsConfig, QuotaCalculationStrategy,
                        LockedInfoByAccount, WindowStatsByConsumer>>

-----------------------------------------------------------------------------
(* The signed extension *)

\* FreeCallsValidityError as u8
OutOfQuota == 0

CallCannotBeFree == 1

\* The verdict without the filter.
validity_ignores_filter(who, xt) ==
    IF xt.pallet = "FreeCalls" /\ xt.function = "try_free_call"
    THEN IF ~IsSome(can_make_free_call(who)) THEN <<"Invalid", OutOfQuota>> ELSE <<"Valid">>
    ELSE <<"Valid">>

\* The verdict with the two checks in the other order: quota first, then the filter.
validity_quota_first(who, xt) ==
    IF xt.pallet = "FreeCalls" /\ xt.function = "try_free_call"
    THEN IF ~IsSome(can_make_free_call(who)) THEN <<"Invalid", OutOfQuota>>
         ELSE IF ~FreeCallsFilter(xt.call) THEN <<"Invalid", CallCannotBeFree>>
         ELSE <<"Valid">>
    ELSE <<"Valid">>

\* validate asking can_make_free_call for every call of the pallet.
validity_every_local_call(who, xt) ==
    IF xt.pallet = "FreeCalls"
    THEN IF xt.function = "try_free_call" /\ ~FreeCallsFilter(xt.call)
         THEN <<"Invalid", CallCannotBeFree>>
         ELSE IF ~IsSome(can_make_free_call(who)) THEN <<"Invalid", OutOfQuota>>
         ELSE <<"Valid">>
    ELSE <<"Valid">>

\* The verdict of FreeCallsPrevalidation::validate(who, call).
validity(who, xt) ==
    IF xt.pallet = "FreeCalls" /\ xt.function = "try_free_call"
    THEN IF ~FreeCallsFilter(xt.call) THEN <<"Invalid", CallCannotBeFree>>
         ELSE IF ~IsSome(can_make_free_call(who)) THEN <<"Invalid", OutOfQuota>>
         ELSE <<"Valid">>
    ELSE <<"Valid">>

\* validate committing the new stats of a free call it accepts.
validate_commits(who, xt) ==
    /\ last_call' = [ext |-> "validate", who |-> who, xt |-> xt, ret |-> validity(who, xt)]
    /\ WindowStatsByConsumer' =
           IF xt.pallet = "FreeCalls" /\ xt.function = "try_free_call"
                  /\ IsSome(can_make_free_call(who))
           THEN update_consumer_stats(who, can_make_free_call(who)[1])
           ELSE WindowStatsByConsumer
    /\ UNCHANGED <<block_number, WindowsConfig, QuotaCalculationStrategy, LockedInfoByAccount,
                   EligibleAccounts, events>>

\* FreeCallsPrevalidation::validate
validate(who, xt) ==
    /\ last_call' = [ext |-> "validate", who |-> who, xt |-> xt, ret |-> validity(who, xt)]
    /\ UNCHANGED <<block_number, WindowsConfig, QuotaCalculationStrategy, LockedInfoByAccount,
                   WindowStatsByConsumer, EligibleAccounts, events>>

-----------------------------------------------------------------------------
(* The system *)

Next ==
    \/ \E n \in BlockSamples : set_block_number(n)
    \/ \E a \in Accounts, l \in LockedInfos : set_locked_info(a, l)
    \/ \E o \in Origins, c \in InnerCalls : try_free_call(o, c) /\ Len(events') <= MaxEvents
    \/ \E o \in Origins, l \in EligibleLists :
           add_eligible_accounts(o, l) /\ Len(events') <= MaxEvents
    \/ \E a \in Accounts, x \in Extrinsics : validate(a, x)

Spec == Init /\ [][Next]_vars

-----------------------------------------------------------------------------
(* One consumer submitting alone, as in the pallet's tests: the configuration *)
(* and the locked stake stay as constructed, only the chain moves on.        *)

\* The consumer of the tests.
Consumer == CHOOSE a \in Accounts : \A b \in Accounts : a <= b

\* One window of 20 blocks with a quota of 5, and the runtime's windows with a
\* lasting lock of ConsumerLockedDollars.
InitConsumer ==
    /\ block_number = 1
    /\ \/ /\ WindowsConfig = << WindowConfig(20, 1) >>
          /\ QuotaCalculationStrategy = "TestQuota5"
          /\ LockedInfoByAccount = [a \in Accounts |-> None]
       \/ /\ WindowsConfig = FREE_CALLS_WINDOWS_CONFIG
          /\ QuotaCalculationStrategy = "FreeCallsCalculationStrategy"
          /\ LockedInfoByAccount =
                 [a \in Accounts |->
                     IF a = Consumer
                     THEN Some(LockedInfo(0, Balance(ConsumerLockedDollars * DOLLARS), None))
                     ELSE None]
    /\ WindowStatsByConsumer = [a \in Accounts |-> << >>]
    /\ EligibleAccounts = [a \in Accounts |-> FALSE]
    /\ events = << >>
    /\ last_call = [ext |-> "none"]

NextConsumer ==
    \/ \E n \in BlockSamples : set_block_number(n)
    \/ \E c \in InnerCalls : try_free_call(Consumer, c) /\ Len(events') <= MaxConsumerEvents
    \/ \E x \in Extrinsics : validate(Consumer, x)

SpecConsumer == InitConsumer /\ [][NextConsumer]_vars

-----------------------------------------------------------------------------
(* Vocabulary of the properties *)

Windows == 1..Len(WindowsConfig)

\* floor(t / period_i) at the current block; window i has a positive period
bucket(i) == block_number \div WindowsConfig[i].period

\* The quota the strategy yields for c now, zero when it yields none.
quota_at(c) ==
    LET quota == calculate(c, block_number, LockedInfoByAccount[c])
    IN IF IsSome(quota) THEN quota[1] ELSE 0

\* max(1, floor(quota / ratio_i))
cap(c, i) == Max(1, quota_at(c) \div WindowsConfig[i].quota_ratio)

\* The calls c has used in the current bucket of window i.
used_in_bucket(c, i) ==
    LET stats == WindowStatsByConsumer[c]
    IN IF i <= Len(stats) /\ stats[i].timeline_index = bucket(i)
       THEN stats[i].used_calls ELSE 0

\* Window i has no room left for c in the current bucket.
AtCap(c, i) ==
    /\ WindowsConfig[i].period > 0
    /\ i <= Len(WindowStatsByConsumer[c])
    /\ WindowStatsByConsumer[c][i].timeline_index >= bucket(i)
    /\ WindowStatsByConsumer[c][i].used_calls >= cap(c, i)

\* A reason to reject the free call of inner call c by account o.
Rejects(o, c) ==
    \/ ~FreeCallsFilter(c)
    \/ Len(WindowsConfig) = 0
    \/ quota_at(o) = 0
    \/ \E i \in Windows : WindowsConfig[i].period = 0
    \/ \E i \in Windows : AtCap(o, i)

\* The FreeCallResult events of account a.
ResultsOf(a) ==
    { k \in 1..Len(events) : events[k].event = "FreeCallResult" /\ events[k].who = a }

\* The step handled a try_free_call of a signed origin.
TryStep == last_call'.ext = "try_free_call" /\ last_call'.origin \in Accounts

\* The step admitted the free call: it deposited the caller's FreeCallResult.
Admitted ==
    /\ Len(events') = Len(events) + 1
    /\ events'[Len(events')].event = "FreeCallResult"
    /\ events'[Len(events')].who = last_call'.origin

\* The last call was a try_free_call of a signed origin that was skipped.
LastSkipped ==
    /\ last_call.ext = "try_free_call"
    /\ last_call.origin \in Accounts
    /\ last_call.actual_weight = Some(WeightInfo_try_free_call)

\* The last call was a try_free_call of a signed origin that was dispatched.
LastDispatched ==
    /\ last_call.ext = "try_free_call"
    /\ last_call.origin \in Accounts
    /\ last_call.actual_weight = Some(WeightInfo_try_free_call + InnerCallWeight)

Storage == <<WindowStatsByConsumer, EligibleAccounts, LockedInfoByAccount, events>>

-----------------------------------------------------------------------------
(* Properties *)

\* C1: the pre-validator accepts a try_free_call exactly when try_free_call, run on
\* the same state, admits it: the verdict of validate in the state before the call
\* is valid if and only if the call deposits the caller's FreeCallResult.
C1_PrePostAgreement ==
    [][ TryStep =>
          ((validity(last_call'.origin, TryFreeCall(last_call'.call)) = <<"Valid">>)
              <=> Admitted) ]_vars

C1_Witness ==
    /\ LastDispatched
    /\ last_call.call = "Posts"
    /\ events[Len(events)] = FreeCallResult(last_call.origin, "Err")

\* C2: a try_free_call that meets a reason to reject (the filter, no or zero quota,
\* no window, a window of period zero, a window at its cap) changes no account's
\* stats, no other storage, and deposits no event.
C2_RejectionLeavesState ==
    [][ (TryStep /\ Rejects(last_call'.origin, last_call'.call)) => UNCHANGED Storage ]_vars

C2_Witness ==
    /\ LastSkipped
    /\ FreeCallsFilter(last_call.call)
    /\ \E i \in Windows : \A j \in Windows : WindowsConfig[j].period > 0 /\ AtCap(last_call.origin, i)

\* C3: an admitted try_free_call at block t leaves the caller with one entry per
\* window, the entry of window i being bucket floor(t / period_i) with the count
\* the caller had in that bucket before, plus one.
C3_CommitCountsOne ==
    [][ (TryStep /\ Admitted) =>
          LET o == last_call'.origin
          IN /\ Len(WindowStatsByConsumer'[o]) = Len(WindowsConfig)
             /\ \A i \in Windows :
                    WindowStatsByConsumer'[o][i] =
                        [timeline_index |-> bucket(i), used_calls |-> used_in_bucket(o, i) + 1] ]_vars

C3_Witness ==
    /\ LastDispatched
    /\ Len(WindowsConfig) = 2
    /\ WindowStatsByConsumer[last_call.origin] =
           << [timeline_index |-> 0, used_calls |-> 2], [timeline_index |-> 1, used_calls |-> 1] >>

\* C4 as stated: in every state, a stored entry of the current bucket counts at most
\* max(1, floor(quota(c, t) / ratio_i)) calls, with the quota the strategy yields now.
C4_CapRespectAlways ==
    \A c \in Accounts : \A i \in 1..Len(WindowStatsByConsumer[c]) :
        (WindowsConfig[i].period > 0 /\ WindowStatsByConsumer[c][i].timeline_index = bucket(i))
            => WindowStatsByConsumer[c][i].used_calls <= cap(c, i)

\* C4, amended: the stats of an account change only when a try_free_call of that
\* account is admitted, and every entry then written belongs to the current bucket
\* and counts at most max(1, floor(quota(c, t) / ratio_i)) calls, with the quota the
\* strategy yields at that call.
C4_CapRespectAtAdmission ==
    [][ \A c \in Accounts :
          (WindowStatsByConsumer'[c] /= WindowStatsByConsumer[c]) =>
              /\ TryStep /\ Admitted /\ last_call'.origin = c
              /\ \A i \in 1..Len(WindowStatsByConsumer'[c]) :
                    /\ WindowStatsByConsumer'[c][i].timeline_index = bucket(i)
                    /\ WindowStatsByConsumer'[c][i].used_calls <= cap(c, i) ]_vars

C4_Witness ==
    /\ LastDispatched
    /\ \E i \in Windows :
          /\ WindowsConfig[i].quota_ratio > 1
          /\ WindowStatsByConsumer[last_call.origin][i].used_calls = 2
          /\ AtCap(last_call.origin, i)

\* C5: a free call passing the filter is admitted only if every window has room in
\* its current bucket; with one window at its cap the call changes neither the
\* stats nor the events, whatever room the other windows have.
C5_AllWindowsMustAdmit ==
    [][ (TryStep /\ FreeCallsFilter(last_call'.call)) =>
          LET o == last_call'.origin
          IN /\ Admitted => \A i \in Windows : used_in_bucket(o, i) < cap(o, i)
             /\ (\E i \in Windows : AtCap(o, i)) =>
                    UNCHANGED <<WindowStatsByConsumer, events>> ]_vars

C5_Witness ==
    /\ LastSkipped
    /\ FreeCallsFilter(last_call.call)
    /\ WindowsConfig = FREE_CALLS_WINDOWS_CONFIG
    /\ \A i \in Windows :
          WindowStatsByConsumer[last_call.origin][i] = [timeline_index |-> 0, used_calls |-> 3]
    /\ AtCap(last_call.origin, 3)
    /\ ~AtCap(last_call.origin, 1) /\ ~AtCap(last_call.origin, 2)

\* C6: when a call is admitted at a block whose bucket in window i is later than the
\* stored one, the entry of window i becomes that bucket with a count of one.
C6_BucketReset ==
    [][ (TryStep /\ Admitted) =>
          LET o == last_call'.origin
          IN \A i \in 1..Len(WindowStatsByConsumer[o]) :
                 bucket(i) > WindowStatsByConsumer[o][i].timeline_index =>
                     /\ WindowStatsByConsumer'[o][i].timeline_index = bucket(i)
                     /\ WindowStatsByConsumer'[o][i].used_calls = 1 ]_vars

\* Both windows were at their cap of one in the buckets before.
C6_Witness ==
    /\ LastDispatched
    /\ Cardinality(ResultsOf(last_call.origin)) = 2
    /\ quota_at(last_call.origin) = 1
    /\ WindowStatsByConsumer[last_call.origin] =
           << [timeline_index |-> 1, used_calls |-> 1], [timeline_index |-> 2, used_calls |-> 1] >>

\* One window of ratio 1.
OneWindow == Len(WindowsConfig) = 1 /\ WindowsConfig[1].quota_ratio = 1

\* C7: with one window of ratio 1 and a constant quota q, an account that made n
\* admitted calls in the first bucket has the stats <<(0, n)>> with n <= q, and a
\* call passing the filter in that bucket is admitted exactly when n < q.
C7_SingleWindowExhaustion ==
    /\ [](OneWindow /\ block_number < WindowsConfig[1].period =>
            \A a \in Accounts :
                LET n == Cardinality(ResultsOf(a))
                IN /\ n <= quota_at(a)
                   /\ WindowStatsByConsumer[a] =
                          IF n = 0 THEN << >>
                          ELSE << [timeline_index |-> 0, used_calls |-> n] >>)
    /\ [][ (OneWindow /\ block_number < WindowsConfig[1].period
               /\ TryStep /\ FreeCallsFilter(last_call'.call)) =>
              (Admitted <=>
                  Cardinality(ResultsOf(last_call'.origin)) < quota_at(last_call'.origin)) ]_vars

C7_Witness ==
    /\ LastSkipped
    /\ FreeCallsFilter(last_call.call)
    /\ WindowsConfig = << WindowConfig(20, 1) >>
    /\ block_number = 19
    /\ quota_at(last_call.origin) = 5
    /\ WindowStatsByConsumer[last_call.origin] = << [timeline_index |-> 0, used_calls |-> 5] >>

\* The events hold no FreeCallResult.
NoFreeCallResult == \A k \in 1..Len(events) : events[k].event /= "FreeCallResult"

\* C8: with a window of period zero anywhere in the configuration, no account is
\* ever admitted: the admission check and the pre-validator reject, the stats stay
\* empty and no FreeCallResult is deposited.
C8_ZeroPeriodRejects ==
    (\E i \in Windows : WindowsConfig[i].period = 0) =>
        /\ \A a \in Accounts :
              /\ ~IsSome(can_make_free_call(a))
              /\ validity(a, TryFreeCall("Posts")) = <<"Invalid", OutOfQuota>>
              /\ WindowStatsByConsumer[a] = << >>
        /\ NoFreeCallResult

C8_Witness ==
    /\ LastSkipped
    /\ FreeCallsFilter(last_call.call)
    /\ quota_at(last_call.origin) > 0
    /\ Len(WindowsConfig) = 3
    /\ WindowsConfig[1].period > 0 /\ WindowsConfig[2].period = 0
    /\ block_number >= 2

\* C9: with no window configured, no account is ever admitted: the admission check
\* and the pre-validator reject, the stats stay empty and no FreeCallResult is
\* deposited.
C9_EmptyConfigRejects ==
    (Len(WindowsConfig) = 0) =>
        /\ \A a \in Accounts :
              /\ ~IsSome(can_make_free_call(a))
              /\ validity(a, TryFreeCall("Posts")) = <<"Invalid", OutOfQuota>>
              /\ WindowStatsByConsumer[a] = << >>
        /\ NoFreeCallResult

C9_Witness ==
    /\ LastSkipped
    /\ FreeCallsFilter(last_call.call)
    /\ quota_at(last_call.origin) > 0
    /\ Len(WindowsConfig) = 0

\* C10: validate changes no stats, no eligible flag, no locked stake and no event,
\* whatever its verdict, and the verdict it returned is the verdict of the state it
\* found and left.
C10_ValidateReadOnly ==
    [][ (last_call'.ext = "validate") =>
          /\ UNCHANGED <<Storage, block_number>>
          /\ last_call'.ret = validity(last_call'.who, last_call'.xt) ]_vars

C10_Witness ==
    /\ last_call.ext = "validate"
    /\ last_call.ret = <<"Valid">>
    /\ last_call.xt = TryFreeCall("Posts")
    /\ WindowStatsByConsumer[last_call.who] /= << >>
    /\ \E i \in Windows : used_in_bucket(last_call.who, i) + 1 = cap(last_call.who, i)

-----------------------------------------------------------------------------
\* C11: validate answers a try_free_call whose inner call fails the filter with
\* the custom error 1 (CallCannotBeFree), whatever the caller's quota; a call that
\* passes the filter and is rejected by the quota and the windows with the custom
\* error 0 (OutOfQuota); any other call of a try_free_call with Valid.
C11_ValidityErrorMapping ==
    [][ (last_call'.ext = "validate" /\ last_call'.xt \in { TryFreeCall(c) : c \in InnerCalls }) =>
          LET who == last_call'.who
              c == last_call'.xt.call
          IN last_call'.ret =
                 IF ~FreeCallsFilter(c) THEN <<"Invalid", 1>>
                 ELSE IF Rejects(who, c) THEN <<"Invalid", 0>>
                 ELSE <<"Valid">> ]_vars

\* A call outside the filter by a caller who has no quota either.
C11_Witness ==
    /\ last_call.ext = "validate"
    /\ last_call.ret = <<"Invalid", 1>>
    /\ last_call.xt = TryFreeCall("Balances")
    /\ quota_at(last_call.who) = 0
    /\ Len(WindowsConfig) = 2

\* C12: a try_free_call whose inner call fails the filter deposits no event and
\* commits no stats, also for a caller the windows would admit, and returns Ok
\* with no fee and the fixed weight of try_free_call alone.
C12_FilterRejectionIsSilent ==
    [][ (TryStep /\ ~FreeCallsFilter(last_call'.call)) =>
          /\ UNCHANGED Storage
          /\ last_call'.result = "Ok"
          /\ last_call'.pays_fee = "No"
          /\ last_call'.actual_weight = Some(WeightInfo_try_free_call) ]_vars

\* The caller has the larger stake quota and room in every window.
C12_Witness ==
    /\ LastSkipped
    /\ ~FreeCallsFilter(last_call.call)
    /\ quota_at(last_call.origin) >= 4
    /\ IsSome(can_make_free_call(last_call.origin))
    /\ Len(WindowStatsByConsumer[last_call.origin]) = 2

C14_InnerErrorKeepsConsumption ==
    [][ (TryStep /\ Admitted /\ events'[Len(events')].result = "Err") =>
          LET o == last_call'.origin
          IN /\ Len(WindowStatsByConsumer'[o]) = Len(WindowsConfig)
             /\ \A i \in Windows :
                    /\ WindowStatsByConsumer'[o][i].timeline_index = bucket(i)
                    /\ WindowStatsByConsumer'[o][i].used_calls = used_in_bucket(o, i) + 1
             /\ events' = Append(events, FreeCallResult(o, "Err"))
             /\ last_call'.result = "Ok" ]_vars

\* The first call of an account, admitted, its inner call failing.
C14_Witness ==
    /\ LastDispatched
    /\ last_call.result = "Ok"
    /\ events = << FreeCallResult(last_call.origin, "Err") >>
    /\ WindowStatsByConsumer[last_call.origin] =
           << [timeline_index |-> 0, used_calls |-> 1], [timeline_index |-> 0, used_calls |-> 1] >>

\* The number of FreeCallResult events of account a.
NumResults(a) == Cardinality(ResultsOf(a))

\* C15: in every step and for every account, a FreeCallResult of the account is
\* deposited exactly when the account's stats are committed, one event per commit;
\* this happens only in a try_free_call of that account which the filter and
\* can_make_free_call admit, and that call reports the inner call's weight, while
\* a try_free_call they reject deposits nothing and reports no inner weight.  The
\* events of an account and its commits thus stay equal in number.
C15_EventIffCommit ==
    [][ /\ \A a \in Accounts :
              /\ NumResults(a)' \in { NumResults(a), NumResults(a) + 1 }
              /\ (NumResults(a)' = NumResults(a) + 1)
                     <=> (WindowStatsByConsumer'[a] /= WindowStatsByConsumer[a])
              /\ (NumResults(a)' = NumResults(a) + 1) =>
                     /\ TryStep /\ last_call'.origin = a
                     /\ IsSome(maybe_new_stats(a, last_call'.call))
                     /\ last_call'.actual_weight =
                            Some(WeightInfo_try_free_call + InnerCallWeight)
                     /\ Len(events') = Len(events) + 1
        /\ (TryStep /\ ~IsSome(maybe_new_stats(last_call'.origin, last_call'.call))) =>
              /\ UNCHANGED <<events, WindowStatsByConsumer>>
              /\ last_call'.actual_weight = Some(WeightInfo_try_free_call) ]_vars

\* Each of the two accounts has one commit and one event.
C15_Witness ==
    /\ LastDispatched
    /\ \A a \in Accounts :
          /\ NumResults(a) = 1
          /\ Len(WindowStatsByConsumer[a]) = 2
          /\ WindowStatsByConsumer[a][1].used_calls = 1

-----------------------------------------------------------------------------
(* try_free_call statement by statement.  While a call is under way last_call  *)
(* holds its position: the statement to run next, the stats can_make_free_call *)
(* returned, the result of the dispatch once it returned and the caller's      *)
(* stats as the inner call found them.                                         *)

\* The order in which the body of `if let Some(new_stats)` was written.
StepOrder_dispatch_first == << "dispatch", "commit", "deposit" >>

\* The statements of the body of `if let Some(new_stats)`, in program order.
StepOrder == << "commit", "dispatch", "deposit" >>

\* No call is under way.
Idle == last_call.ext /= "step"

\* The statement the call under way runs next.
NextStatement == StepOrder[last_call.at]

\* The receipt of a try_free_call that dispatched: what the whole call returns.
Receipt(origin, call, result) ==
    [ext |-> "try_free_call", origin |-> origin, call |-> call, result |-> "Ok",
     actual_weight |->
         Some(WeightInfo_try_free_call
                 + extract_actual_weight(result, get_dispatch_info_weight(call))),
     pays_fee |-> "No"]

\* The position after the statement at last_call.at, given the fields it set.
Advance(position) ==
    IF position.at = Len(StepOrder)
    THEN Receipt(position.origin, position.call, position.result[1])
    ELSE [position EXCEPT !.at = @ + 1]

\* ensure_signed and the admission check; a call not admitted returns at once.
try_free_call_check(origin, call) ==
    /\ Idle
    /\ IF origin = Root \/ ~IsSome(maybe_new_stats(origin, call))
       THEN try_free_call(origin, call)
       ELSE /\ last_call' = [ext |-> "step", at |-> 1, origin |-> origin, call |-> call,
                             new_stats |-> maybe_new_stats(origin, call)[1],
                             result |-> None, seen |-> None]
            /\ UNCHANGED <<block_number, WindowsConfig, QuotaCalculationStrategy,
                           LockedInfoByAccount, WindowStatsByConsumer, EligibleAccounts,
                           events>>

\* Self::update_consumer_stats(consumer.clone(), new_stats)
try_free_call_commit ==
    /\ ~Idle /\ NextStatement = "commit"
    /\ WindowStatsByConsumer' = update_consumer_stats(last_call.origin, last_call.new_stats)
    /\ last_call' = Advance(last_call)
    /\ UNCHANGED <<block_number, WindowsConfig, QuotaCalculationStrategy,
                   LockedInfoByAccount, EligibleAccounts, events>>

\* call.dispatch(origin): the inner call runs on the storage as it is now
try_free_call_dispatch ==
    /\ ~Idle /\ NextStatement = "dispatch"
    /\ \E result \in DispatchResults :
           last_call' = Advance([last_call EXCEPT
                                    !.result = Some(result),
                                    !.seen = Some(WindowStatsByConsumer[last_call.origin])])
    /\ UNCHANGED <<block_number, WindowsConfig, QuotaCalculationStrategy,
                   LockedInfoByAccount, WindowStatsByConsumer, EligibleAccounts, events>>

\* Self::deposit_event(Event::FreeCallResult(consumer, result))
try_free_call_deposit_event ==
    /\ ~Idle /\ NextStatement = "deposit"
    /\ events' = Append(events, FreeCallResult(last_call.origin, last_call.result[1]))
    /\ last_call' = Advance(last_call)
    /\ UNCHANGED <<block_number, WindowsConfig, QuotaCalculationStrategy,
                   LockedInfoByAccount, WindowStatsByConsumer, EligibleAccounts>>

\* The events of a call under way included.
EventsWhenDone == Len(events) + (IF Idle THEN 0 ELSE 1)

\* A call runs to its end before anything else happens.
NextSteps ==
    \/ \E n \in BlockSamples : Idle /\ set_block_number(n)
    \/ \E a \in Accounts, l \in LockedInfos : Idle /\ set_locked_info(a, l)
    \/ \E o \in Origins, c \in InnerCalls :
           try_free_call_check(o, c) /\ EventsWhenDone' <= MaxEvents
    \/ \E o \in Origins, l \in EligibleLists :
           Idle /\ add_eligible_accounts(o, l) /\ EventsWhenDone' <= MaxEvents
    \/ try_free_call_commit
    \/ try_free_call_dispatch
    \/ try_free_call_deposit_event
    \/ \E a \in Accounts, x \in Extrinsics : Idle /\ validate(a, x)

SpecSteps == Init /\ [][NextSteps]_vars

\* The call under way has not dispatched yet.
BeforeDispatch == ~Idle /\ last_call.result = None

\* The call under way has dispatched and its inner call returned.
AfterDispatch == ~Idle /\ last_call.result /= None

\* C16: in an admitted try_free_call the stats are committed after the admission
\* check and before the dispatch, the inner call finds the caller's stats already
\* updated, and FreeCallResult is deposited only after the dispatch returned,
\* carrying its result.
C16_StepOrder ==
    [][ /\ (WindowStatsByConsumer' /= WindowStatsByConsumer) =>
               /\ BeforeDispatch
               /\ WindowStatsByConsumer'[last_call.origin] = last_call.new_stats
        /\ (BeforeDispatch /\ AfterDispatch') =>
               /\ last_call'.seen = Some(last_call.new_stats)
               /\ WindowStatsByConsumer[last_call.origin] = last_call.new_stats
               /\ UNCHANGED events
        /\ (Len(events') > Len(events) /\ events'[Len(events')].event = "FreeCallResult") =>
               /\ AfterDispatch
               /\ events'[Len(events')] = FreeCallResult(last_call.origin, last_call.result[1])
               /\ WindowStatsByConsumer[last_call.origin] = last_call.new_stats
               /\ last_call' = Receipt(last_call.origin, last_call.call, last_call.result[1]) ]_vars

\* The inner call of the second admitted call of an account has failed and its
\* event is still to come.
C16_Witness ==
    /\ AfterDispatch
    /\ last_call.result = Some("Err")
    /\ NumResults(last_call.origin) = 1
    /\ Len(events) = 1
    /\ last_call.seen =
           Some(<< [timeline_index |-> 0, used_calls |-> 2], [timeline_index |-> 1, used_calls |-> 1] >>)

-----------------------------------------------------------------------------
(* The runtime's strategy on its own: the stake oracle reports locks of many  *)
(* amounts and ages and the strategy is asked for the quota of one consumer.  *)

\* Balance::MAX in CENTS: u128::MAX base units divided by 10^9 = 31250 * 32000.
Balance_MAX == div_small(div_small([i \in 1..(2 * U64_DIGITS) |-> U16_MAX], 31250), 32000)

\* u64::MAX + 1 + n tokens, as a balance.
TokensBeyondU64(n) == mul_small(U64_MAX, DOLLARS, (n + 1) * DOLLARS)

\* The lock ages of the strategy's tests and the edges of its brackets.
QuotaAges ==
    { 1 * DAYS, (1 * WEEKS) - 1, 1 * WEEKS, 2 * WEEKS, 3 * WEEKS, 4 * WEEKS,
      (1 * MONTHS) - 1, 1 * MONTHS, (5 * MONTHS) + WEEKS, 12 * MONTHS, 13 * MONTHS }

\* The blocks the strategy is asked at.
QuotaBlocks == { ExampleBlock - 1, ExampleBlock, ExampleBlock + 1 } \cup QuotaAges

\* The amounts locked: below one token, the amounts of the tests, the amounts
\* around the largest quota, around u64::MAX tokens, and the largest balance.
QuotaAmounts ==
    { Balance(1 * CENTS), Balance(1 * DOLLARS), Balance(10 * DOLLARS), Balance(100 * DOLLARS),
      Balance(500 * DOLLARS), Balance(LargeTokens * DOLLARS),
      Balance((LargeTokens + 1) * DOLLARS),
      mul_small(U64_MAX, DOLLARS, 0), TokensBeyondU64(0), TokensBeyondU64(LargeTokens),
      Balance_MAX }

\* The locks the oracle reports.
QuotaLockedInfos ==
    { LockedInfo(at, amount, expires) :
        at \in { 0, ExampleBlock },
        amount \in QuotaAmounts,
        expires \in { None, Some(ExampleBlock), Some(ExampleBlock + 1), Some(1 * WEEKS) } }

\* T::QuotaCalculationStrategy::calculate(consumer, current_block, locked_info)
call_calculate(consumer) ==
    /\ last_call' = [ext |-> "calculate", consumer |-> consumer,
                     current_block |-> block_number,
                     locked_info |-> LockedInfoByAccount[consumer],
                     ret |-> calculate(consumer, block_number, LockedInfoByAccount[consumer])]
    /\ UNCHANGED <<block_number, WindowsConfig, QuotaCalculationStrategy, LockedInfoByAccount,
                   WindowStatsByConsumer, EligibleAccounts, events>>

InitQuota ==
    /\ block_number = 1
    /\ WindowsConfig = FREE_CALLS_WINDOWS_CONFIG
    /\ QuotaCalculationStrategy = "FreeCallsCalculationStrategy"
    /\ LockedInfoByAccount = [a \in Accounts |-> None]
    /\ WindowStatsByConsumer = [a \in Accounts |-> << >>]
    /\ EligibleAccounts = [a \in Accounts |-> FALSE]
    /\ events = << >>
    /\ last_call = [ext |-> "none"]

NextQuota ==
    \/ \E n \in QuotaBlocks : set_block_number(n)
    \/ \E l \in QuotaLockedInfos : set_locked_info(Consumer, l)
    \/ call_calculate(Consumer)

SpecQuota == InitQuota /\ [][NextQuota]_vars

\* The strategy was just asked, with this lock, and answered ret.
Asked == last_call.ext = "calculate"

AskedLock == last_call.locked_info[1]

\* The lock asked about is active and not expired at the block asked at.
AskedLockCounts ==
    /\ IsSome(last_call.locked_info)
    /\ AskedLock.locked_at < last_call.current_block
    /\ (IsSome(AskedLock.expires_at) => last_call.current_block < AskedLock.expires_at[1])

\* C17: the runtime's strategy yields no quota without a lock record, for a lock
\* with locked_at >= current_block and for a lock whose expires_at is present and
\* <= current_block; for any other lock it yields a quota.
C17_NoQuotaCases ==
    Asked =>
        /\ ~IsSome(last_call.locked_info) => last_call.ret = None
        /\ (IsSome(last_call.locked_info) /\ AskedLock.locked_at >= last_call.current_block)
               => last_call.ret = None
        /\ (IsSome(last_call.locked_info) /\ IsSome(AskedLock.expires_at)
               /\ last_call.current_block >= AskedLock.expires_at[1])
               => last_call.ret = None
        /\ AskedLockCounts => IsSome(last_call.ret)

\* Asked at the very block a lock of ten tokens, taken at block 0, expires.
C17_Witness ==
    /\ Asked
    /\ last_call.ret = None
    /\ last_call.current_block = ExampleBlock
    /\ last_call.locked_info = Some(LockedInfo(0, Balance(10 * DOLLARS), Some(ExampleBlock)))

\* The utilization the lock age earns: 15 below a week, 25 + 5 per week up to three
\* weeks below a month, 40 + 5 per month up to twelve months from a month on.
utilization_of_age(age) ==
    IF age < WEEKS THEN 15
    ELSE IF age < MONTHS THEN 25 + (5 * Min(3, age \div WEEKS))
    ELSE 40 + (5 * Min(12, age \div MONTHS))

\* floor(tokens * FREE_CALLS_PER_UNIT * utilization / 100) over the unbounded integers.
quota_of_tokens(tokens, utilization) ==
    div_small(mul_small(mul_small(tokens, 10, 0), utilization, 0), 100)

\* The smaller of two wide integers.
wide_min(x, y) == IF wide_leq(x, y) THEN x ELSE y

\* The age of the lock asked about, at the block asked at.
AskedAge == last_call.current_block - AskedLock.locked_at

\* floor(locked_amount / DENOMINATION) of the lock asked about.
AskedTokens == div_small(AskedLock.locked_amount, DOLLARS)

\* C18 as stated: for a lock that counts, the quota is
\* floor(tokens * 10 * utilization / 100).
C18_QuotaIsTheProduct ==
    (Asked /\ AskedLockCounts) =>
        Balance(last_call.ret[1]) = quota_of_tokens(AskedTokens, utilization_of_age(AskedAge))

\* C18, amended: for a lock that counts, the quota is
\* min(65535, floor(t * 10 * utilization / 100)) where t is the token count
\* floor(locked_amount / DENOMINATION) reduced modulo 2^64.
C18_QuotaIsTheProductClamped ==
    (Asked /\ AskedLockCounts) =>
        Balance(last_call.ret[1]) =
            wide_min(Balance(65535),
                     quota_of_tokens(trim(SubSeq(AskedTokens, 1, Min(4, Len(AskedTokens)))),
                                     utilization_of_age(AskedAge)))

\* 500 tokens locked for five months and a week.
C18_Witness ==
    /\ Asked /\ AskedLockCounts
    /\ AskedAge = (5 * MONTHS) + WEEKS
    /\ AskedLock.locked_amount = Balance(500 * DOLLARS)
    /\ last_call.ret = Some(3250)

\* The quota the strategy yields for lock l at the block asked at, zero for none.
quota_for(l) ==
    LET quota == calculate(last_call.consumer, last_call.current_block, Some(l))
    IN IF IsSome(quota) THEN quota[1] ELSE 0

\* C19 as stated: for a lock that counts, whatever the amount and the age, the
\* quota is min(65535, floor(floor(locked_amount / DENOMINATION) * 10 * utilization
\* / 100)) over the unbounded integers, and a lock of a larger amount, all else
\* equal, never yields a smaller quota.
C19_NeverWraps ==
    (Asked /\ AskedLockCounts) =>
        /\ Balance(last_call.ret[1]) =
               wide_min(Balance(65535),
                        quota_of_tokens(AskedTokens, utilization_of_age(AskedAge)))
        /\ \A amount \in QuotaAmounts :
               wide_leq(AskedLock.locked_amount, amount) =>
                   last_call.ret[1] <= quota_for([AskedLock EXCEPT !.locked_amount = amount])

-----------------------------------------------------------------------------
(* One consumer whose stake changes: the oracle also reports a lock of less  *)
(* than one token, for which the strategy yields a quota of zero.            *)

\* A lasting lock of one CENT less than a token.
SubTokenLock == LockedInfo(0, Balance((1 * DOLLARS) - (1 * CENTS)), None)

NextStake ==
    \/ \E n \in BlockSamples : set_block_number(n)
    \/ \E l \in LockedInfos \cup { SubTokenLock } : set_locked_info(Consumer, l)
    \/ \E c \in InnerCalls : try_free_call(Consumer, c) /\ Len(events') <= MaxEvents
    \/ \E x \in Extrinsics : validate(Consumer, x)

SpecStake == Init /\ [][NextStake]_vars

\* C20: an account for which the strategy yields no quota or a quota of zero is
\* rejected by can_make_free_call and by validate whatever its stored stats and
\* the bucket, and its try_free_call changes nothing; under the runtime's strategy
\* an account without a lock record keeps empty stats.
C20_NoQuotaRejects ==
    /\ [](\A a \in Accounts :
             /\ quota_at(a) = 0 =>
                    /\ ~IsSome(can_make_free_call(a))
                    /\ validity(a, TryFreeCall("Posts")) = <<"Invalid", OutOfQuota>>
             /\ (QuotaCalculationStrategy = "FreeCallsCalculationStrategy"
                    /\ ~IsSome(LockedInfoByAccount[a])) =>
                    WindowStatsByConsumer[a] = << >>)
    /\ [][ (TryStep /\ quota_at(last_call'.origin) = 0) =>
              /\ UNCHANGED Storage
              /\ last_call'.actual_weight = Some(WeightInfo_try_free_call) ]_vars

\* A quota of zero, with stats of an older bucket in every window.
C20_Witness ==
    /\ LastSkipped
    /\ FreeCallsFilter(last_call.call)
    /\ calculate(last_call.origin, block_number, LockedInfoByAccount[last_call.origin]) = Some(0)
    /\ Len(WindowsConfig) = 2
    /\ Len(WindowStatsByConsumer[last_call.origin]) = 2
    /\ \A i \in Windows : WindowStatsByConsumer[last_call.origin][i].timeline_index < bucket(i)

-----------------------------------------------------------------------------
\* Every window of the configuration has a positive period, and there is one.
ValidConfig == Len(WindowsConfig) > 0 /\ \A i \in Windows : WindowsConfig[i].period > 0

\* Account c has no entry for window i or one of a bucket before the current one.
FreshBucket(c, i) ==
    \/ i > Len(WindowStatsByConsumer[c])
    \/ WindowStatsByConsumer[c][i].timeline_index < bucket(i)

C22_NoFutureBucket ==
    \A a \in Accounts : \A i \in 1..Len(WindowStatsByConsumer[a]) :
        /\ i <= Len(WindowsConfig)
        /\ WindowsConfig[i].period > 0
        /\ WindowStatsByConsumer[a][i].timeline_index <= bucket(i)

\* One account's entries are of the current buckets, the other's of older ones.
C22_Witness ==
    /\ block_number = 4
    /\ \E a, b \in Accounts :
          /\ WindowStatsByConsumer[a] =
                 << [timeline_index |-> 1, used_calls |-> 1], [timeline_index |-> 2, used_calls |-> 1] >>
          /\ WindowStatsByConsumer[b] =
                 << [timeline_index |-> 0, used_calls |-> 1], [timeline_index |-> 0, used_calls |-> 1] >>

\* C23: the stats stored for an account are empty, which is the case exactly when
\* it was never admitted, or hold one entry per configured window; and whenever
\* they are written, entry i is the one of window i: its bucket is
\* floor(block_number / period_i).
C23_StatsLength ==
    /\ [](\A a \in Accounts :
             /\ Len(WindowStatsByConsumer[a]) \in { 0, Len(WindowsConfig) }
             /\ (Len(WindowStatsByConsumer[a]) = 0) <=> (NumResults(a) = 0))
    /\ [][ \A a \in Accounts :
              (WindowStatsByConsumer'[a] /= WindowStatsByConsumer[a]) =>
                  /\ Len(WindowStatsByConsumer'[a]) = Len(WindowsConfig)
                  /\ \A i \in Windows :
                         WindowStatsByConsumer'[a][i].timeline_index =
                             block_number \div WindowsConfig[i].period ]_vars

\* One account never admitted, the other admitted twice under two windows.
C23_Witness ==
    \E a, b \in Accounts :
        /\ WindowStatsByConsumer[a] = << >>
        /\ NumResults(a) = 0
        /\ NumResults(b) = 2
        /\ Len(WindowStatsByConsumer[b]) = 2
        /\ Len(WindowsConfig) = 2

\* Stats with no call used in the current bucket of any window.
ZeroStats ==
    [i \in Windows |->
        [timeline_index |-> IF WindowsConfig[i].period > 0 THEN bucket(i) ELSE 0,
         used_calls |-> 0]]

\* C24: the stats of an account are absent until its first admitted free call and,
\* once present, are never removed; and for an account without stats the verdict
\* and the stats written are those of an account whose every window holds zero
\* used calls in the current bucket.
C24_Lifecycle ==
    /\ [][ \A a \in Accounts :
              /\ (WindowStatsByConsumer[a] /= << >>) => (WindowStatsByConsumer'[a] /= << >>)
              /\ (WindowStatsByConsumer[a] = << >> /\ WindowStatsByConsumer'[a] /= << >>) =>
                     (TryStep /\ Admitted /\ last_call'.origin = a) ]_vars
    /\ [][ (TryStep /\ FreeCallsFilter(last_call'.call) /\ ValidConfig
               /\ WindowStatsByConsumer[last_call'.origin] = << >>
               /\ quota_at(last_call'.origin) > 0) =>
              LET o == last_call'.origin
                  z == check_windows(1, block_number, quota_at(o), ZeroStats, << >>)
              IN /\ Admitted <=> IsSome(z)
                 /\ Admitted => WindowStatsByConsumer'[o] = z[1] ]_vars

\* The entry of an account created by its first admitted call, at block 4.
C24_Witness ==
    /\ LastDispatched
    /\ NumResults(last_call.origin) = 1
    /\ block_number = 4
    /\ WindowStatsByConsumer[last_call.origin] =
           << [timeline_index |-> 1, used_calls |-> 1], [timeline_index |-> 2, used_calls |-> 1] >>



-----------------------------------------------------------------------------
(* The quota strategy evaluated again and again while the rest of the state  *)
(* changes.  Each evaluation is kept, with its arguments, after the events.  *)

MaxEvaluations == 3

\* One evaluation of the strategy: its arguments, the consumer's eligible flag at
\* the time, and the quota returned.
Evaluation(consumer, current_block, locked_info, eligible, quota) ==
    [event |-> "calculate", consumer |-> consumer, current_block |-> current_block,
     locked_info |-> locked_info, eligible |-> eligible, quota |-> quota]

\* T::QuotaCalculationStrategy::calculate(consumer, current_block, locked_info),
\* with the evaluation kept
record_calculate(consumer, current_block, locked_info) ==
    /\ events' = Append(events,
                        Evaluation(consumer, current_block, locked_info,
                                   EligibleAccounts[consumer],
                                   calculate(consumer, current_block, locked_info)))
    /\ last_call' = [ext |-> "calculate"]
    /\ UNCHANGED <<block_number, WindowsConfig, QuotaCalculationStrategy, LockedInfoByAccount,
                   WindowStatsByConsumer, EligibleAccounts>>

NextPurity ==
    \/ \E n \in BlockSamples : set_block_number(n)
    \/ \E l \in LockedInfos : set_locked_info(Consumer, l)
    \/ \E l \in EligibleLists :
           add_eligible_accounts(Root, l) /\ Len(events') <= MaxEvaluations
    \/ try_free_call(Consumer, "Posts") /\ Len(events') <= MaxEvaluations
    \/ /\ record_calculate(Consumer, block_number, LockedInfoByAccount[Consumer])
       /\ Len(events') <= MaxEvaluations

SpecPurity == Init /\ [][NextPurity]_vars

\* The evaluations kept so far.
Evaluations == { i \in 1..Len(events) : events[i].event = "calculate" }

SameArguments(i, j) ==
    /\ events[i].consumer = events[j].consumer
    /\ events[i].current_block = events[j].current_block
    /\ events[i].locked_info = events[j].locked_info

\* C25 as claimed: whichever strategy is configured, two evaluations with the same
\* (consumer, current_block, locked_info) return the same quota, whatever else
\* was stored at the time of each.
C25_StrategyPurity ==
    \A i, j \in Evaluations : SameArguments(i, j) => events[i].quota = events[j].quota

\* C25: two evaluations of the stake-derived strategy with the same (consumer,
\* current_block, locked_info) return the same quota whatever else was stored; two
\* evaluations of the allow-list fallback do when the consumer's eligible flag was
\* the same at both.
C25_StrategyPurityButEligibleFlag ==
    \A i, j \in Evaluations :
        (/\ SameArguments(i, j)
         /\ \/ QuotaCalculationStrategy = "FreeCallsCalculationStrategy"
            \/ events[i].eligible = events[j].eligible) =>
            events[i].quota = events[j].quota

\* Two evaluations with the same arguments and the same quota, the other account
\* made eligible and the consumer's stats written between them.
C25_Witness ==
    \E i, j \in Evaluations :
        /\ i + 1 < j
        /\ SameArguments(i, j)
        /\ IsSome(events[i].quota) /\ events[i].quota = events[j].quota
        /\ events[i + 1].event \in { "EligibleAccountsAdded", "FreeCallResult" }


\* The verdict for consumer of the window engine run on the quota the strategy
\* yields for the current block and the stored locked-stake record.
VerdictNow(consumer) ==
    LET quota == calculate(consumer, block_number, LockedInfoByAccount[consumer])
    IN /\ IsSome(quota)
       /\ quota[1] > 0
       /\ IsSome(check_windows(1, block_number, quota[1],
                               WindowStatsByConsumer[consumer], << >>))

\* C26: with a non-empty configuration, every admission check, of try_free_call
\* and of validate alike, decides by the quota the strategy yields for the block
\* number and the caller's locked-stake record as stored when the check runs; under
\* the stake-derived strategy a call is admitted only with a record whose locked_at
\* is before the current block and whose expires_at, if any, is after it.
C26_CheckSeesCurrentState ==
    /\ [][ (TryStep /\ FreeCallsFilter(last_call'.call) /\ Len(WindowsConfig) > 0) =>
              /\ Admitted <=> VerdictNow(last_call'.origin)
              /\ (Admitted /\ QuotaCalculationStrategy = "FreeCallsCalculationStrategy") =>
                     LET locked_info == LockedInfoByAccount[last_call'.origin]
                     IN /\ IsSome(locked_info)
                        /\ locked_info[1].locked_at < block_number
                        /\ IsSome(locked_info[1].expires_at) =>
                               block_number < locked_info[1].expires_at[1] ]_vars
    /\ [][ (/\ last_call'.ext = "validate"
            /\ last_call'.xt.function = "try_free_call"
            /\ FreeCallsFilter(last_call'.xt.call)
            /\ Len(WindowsConfig) > 0) =>
              (last_call'.ret = <<"Valid">>) <=> VerdictNow(last_call'.who) ]_vars

\* A call admitted under the lock recorded at block LockStart, one block later.
C26_Witness ==
    /\ LastDispatched
    /\ QuotaCalculationStrategy = "FreeCallsCalculationStrategy"
    /\ block_number = LockStart + 1
    /\ LockedInfoByAccount[last_call.origin] =
           Some(LockedInfo(LockStart, Balance(1 * DOLLARS), Some(LockStart + LockLength)))


-----------------------------------------------------------------------------
(* Submissions of one consumer validated against one snapshot and then all   *)
(* included: validate leaves the state as it is, so the one validation       *)
(* stands for that of every submission of the batch.                         *)

\* The try_free_call of inner call c by o was found valid on the snapshot: the
\* validation of it, or the inclusion of an earlier one of the batch, came last.
Prevalidated(o, c) ==
    \/ /\ last_call.ext = "validate"
       /\ last_call.who = o
       /\ last_call.xt = TryFreeCall(c)
       /\ last_call.ret = <<"Valid">>
    \/ /\ last_call.ext = "try_free_call"
       /\ last_call.origin = o
       /\ last_call.call = c

NextPool ==
    \/ \E n \in BlockSamples : set_block_number(n)
    \/ \E x \in Extrinsics : validate(Consumer, x)
    \/ \E c \in InnerCalls :
           /\ Prevalidated(Consumer, c)
           /\ try_free_call(Consumer, c)
           /\ Len(events') <= MaxConsumerEvents

SpecPool == InitConsumer /\ [][NextPool]_vars

\* C27: of the submissions found valid on one snapshot and then included, each is
\* decided on the state the earlier ones left: it is admitted exactly when the
\* window engine admits it on the stored stats, which it then replaces, and is
\* otherwise skipped with an Ok result, no fee, and no change of stats or events.
\* The calls counted in the current bucket of a window never exceed its cap, and
\* as long as no window has left its first bucket neither do the FreeCallResult
\* events of the consumer.
C27_StalePrevalidation ==
    /\ [](\A i \in Windows :
              /\ used_in_bucket(Consumer, i) <= cap(Consumer, i)
              /\ (\A j \in Windows : bucket(j) = 0) => NumResults(Consumer) <= cap(Consumer, i))
    /\ [][ TryStep =>
              LET o == last_call'.origin
              IN /\ Admitted <=> VerdictNow(o)
                 /\ Admitted =>
                        /\ WindowStatsByConsumer'[o] =
                               check_windows(1, block_number, quota_at(o),
                                             WindowStatsByConsumer[o], << >>)[1]
                        /\ \A i \in Windows : used_in_bucket(o, i) < cap(o, i)
                 /\ ~Admitted =>
                        /\ UNCHANGED <<WindowStatsByConsumer, events>>
                        /\ last_call'.result = "Ok"
                        /\ last_call'.pays_fee = "No" ]_vars

\* The fourth submission of a batch found valid with the five-minute window
\* empty: three were executed and this one was skipped.
C27_Witness ==
    /\ LastSkipped
    /\ FreeCallsFilter(last_call.call)
    /\ WindowsConfig = FREE_CALLS_WINDOWS_CONFIG
    /\ block_number = 1
    /\ NumResults(Consumer) = 3
    /\ used_in_bucket(Consumer, 3) = cap(Consumer, 3)


-----------------------------------------------------------------------------
(* The compile-time check of the window configuration *)

MaxWindows == 3

MaxPeriod == 2

MaxRatio == 3

\* The loop of check_free_calls_config from index i on, config being the previous
\* window.
RECURSIVE check_free_calls_config_loop(_, _, _)
check_free_calls_config_loop(configs, i, config) ==
    IF i > Len(configs) THEN TRUE
    ELSE LET current_config == configs[i]
         IN IF current_config.period >= config.period THEN FALSE
            ELSE IF current_config.quota_ratio < config.quota_ratio THEN FALSE
            ELSE check_free_calls_config_loop(configs, i + 1, current_config)

\* check_free_calls_config without the test of the first ratio.
check_free_calls_config_any_first_ratio(configs) ==
    IF Len(configs) = 0 THEN FALSE
    ELSE check_free_calls_config_loop(configs, 2, configs[1])

\* check_free_calls_config
check_free_calls_config(configs) ==
    IF Len(configs) = 0 THEN FALSE
    ELSE LET config == configs[1]
         IN IF config.quota_ratio /= 1 THEN FALSE
            ELSE check_free_calls_config_loop(configs, 2, config)

\* The configurations checked: every sequence of up to MaxWindows windows with a
\* period up to MaxPeriod and a non-zero ratio up to MaxRatio, and the runtime's.
CandidateWindows == { WindowConfig(p, r) : p \in 0..MaxPeriod, r \in 1..MaxRatio }

CandidateConfigs ==
    UNION { [1..n -> CandidateWindows] : n \in 0..MaxWindows }
        \cup { FREE_CALLS_WINDOWS_CONFIG }

InitConfig ==
    /\ block_number = 1
    /\ WindowsConfig \in CandidateConfigs
    /\ QuotaCalculationStrategy = "FreeCallsCalculationStrategy"
    /\ LockedInfoByAccount = [a \in Accounts |-> None]
    /\ WindowStatsByConsumer = [a \in Accounts |-> << >>]
    /\ EligibleAccounts = [a \in Accounts |-> FALSE]
    /\ events = << >>
    /\ last_call = [ext |-> "none"]

\* const_assert!(check_free_calls_config(&FREE_CALLS_WINDOWS_CONFIG)), for the
\* configuration at hand
const_assert_check_free_calls_config ==
    /\ last_call' = [ext |-> "check_free_calls_config",
                     ret |-> check_free_calls_config(WindowsConfig)]
    /\ UNCHANGED <<block_number, WindowsConfig, QuotaCalculationStrategy, LockedInfoByAccount,
                   WindowStatsByConsumer, EligibleAccounts, events>>

NextConfig == const_assert_check_free_calls_config

SpecConfig == InitConfig /\ [][NextConfig]_vars

ConfigChecked == last_call.ext = "check_free_calls_config"

\* The recommended pattern with periods non-increasing.
RecommendedPattern(configs) ==
    /\ Len(configs) > 0
    /\ configs[1].quota_ratio = 1
    /\ \A i \in 2..Len(configs) :
           /\ configs[i].period <= configs[i - 1].period
           /\ configs[i].quota_ratio >= configs[i - 1].quota_ratio

\* The pattern with periods strictly decreasing.
DecreasingPattern(configs) ==
    /\ Len(configs) > 0
    /\ configs[1].quota_ratio = 1
    /\ \A i \in 2..Len(configs) :
           /\ configs[i].period < configs[i - 1].period
           /\ configs[i].quota_ratio >= configs[i - 1].quota_ratio

-----------------------------------------------------------------------------
(* The operations that can fault: the divisions and the subtraction the code *)
(* executes on its way, and the constructor of WindowConfig.                 *)

\* NonZeroU16::new, the constructor of QuotaToWindowRatio
QuotaToWindowRatio_new(n) == IF n = 0 THEN None ELSE Some(n)

Panic == "quota_ratio must be non zero"

\* WindowConfig::new(period, quota_ratio: Option<QuotaToWindowRatio>)
WindowConfig_new(period, quota_ratio) ==
    IF IsSome(quota_ratio) THEN WindowConfig(period, quota_ratio[1]) ELSE Panic

\* check_window dividing by the period before testing it for zero.
check_window_divisors_unguarded(current_block, quota, config, window_stats) ==
    { config.period, config.quota_ratio }

\* The divisors of the divisions check_window executes: current_block / period
\* and quota / quota_ratio, both after the test of the period.
check_window_divisors(current_block, quota, config, window_stats) ==
    IF config.period = 0 THEN { }
    ELSE { config.period, config.quota_ratio }

\* The divisors of the divisions get_utilization_percent executes.
get_utilization_percent_divisors(lock_period) ==
    IF lock_period < 1 * WEEKS THEN { }
    ELSE IF lock_period < 1 * MONTHS THEN { 1 * WEEKS }
    ELSE { 1 * MONTHS }

\* The divisors of the divisions the runtime's strategy executes.
calculate_divisors(consumer, current_block, locked_info) ==
    IF ~IsSome(locked_info) THEN { }
    ELSE LET locked_at == locked_info[1].locked_at
             expires_at == locked_info[1].expires_at
         IN IF locked_at >= current_block THEN { }
            ELSE IF IsSome(expires_at) /\ current_block >= expires_at[1] THEN { }
            ELSE get_utilization_percent_divisors(current_block - locked_at)
                     \cup { DOLLARS, 100 }

\* The subtractions <<minuend, subtrahend>> the runtime's strategy executes:
\* current_block - locked_at, after the test of locked_at.
calculate_subtractions(consumer, current_block, locked_info) ==
    IF ~IsSome(locked_info) THEN { }
    ELSE LET locked_at == locked_info[1].locked_at
             expires_at == locked_info[1].expires_at
         IN IF locked_at >= current_block THEN { }
            ELSE IF IsSome(expires_at) /\ current_block >= expires_at[1] THEN { }
            ELSE { <<current_block, locked_at>> }

-----------------------------------------------------------------------------
\* The quota of the stake-derived strategy and the verdict of can_make_free_call
\* under it, for the given block, locked-stake record and stats.
StakeQuotaAndVerdict(consumer, current_block, locked_info, stats) ==
    LET quota == FreeCallsCalculationStrategy_calculate(consumer, current_block, locked_info)
    IN <<quota,
         IF Len(WindowsConfig) > 0 /\ IsSome(quota) /\ quota[1] > 0
         THEN check_windows(1, current_block, quota[1], stats, << >>)
         ELSE None>>

\* C30: add_eligible_accounts of the root sets the eligible flag of the listed
\* accounts, leaves that of the others, and deposits EligibleAccountsAdded with
\* the number listed; of any other origin it fails and changes nothing.  Either
\* way no window stats, locked-stake record, block or configuration changes, and
\* under the stake-derived strategy the quota and the verdict of every account
\* are after the call what they were before.
C30_AddEligibleAccountsFrame ==
    [][ (last_call'.ext = "add_eligible_accounts") =>
            /\ UNCHANGED <<WindowStatsByConsumer, LockedInfoByAccount, block_number,
                           WindowsConfig, QuotaCalculationStrategy>>
            /\ last_call'.ret \in { "Ok", "BadOrigin" }
            /\ (last_call'.ret = "BadOrigin") => UNCHANGED <<EligibleAccounts, events>>
            /\ (last_call'.ret = "Ok") =>
                   \E l \in EligibleLists :
                       /\ events' = Append(events, EligibleAccountsAdded(Len(l)))
                       /\ \A a \in Accounts :
                              EligibleAccounts'[a] =
                                  (EligibleAccounts[a] \/ \E i \in 1..Len(l) : l[i] = a)
            /\ \A a \in Accounts :
                   StakeQuotaAndVerdict(a, block_number', LockedInfoByAccount'[a],
                                        WindowStatsByConsumer'[a])
                       = StakeQuotaAndVerdict(a, block_number, LockedInfoByAccount[a],
                                              WindowStatsByConsumer[a]) ]_vars

\* Under the stake-derived strategy an account that has used free calls was made
\* eligible.
C30_Witness ==
    /\ last_call.ext = "add_eligible_accounts"
    /\ last_call.ret = "Ok"
    /\ QuotaCalculationStrategy = "FreeCallsCalculationStrategy"
    /\ \E a \in Accounts :
           /\ EligibleAccounts[a]
           /\ WindowStatsByConsumer[a] /= << >>
           /\ IsSome(StakeQuotaAndVerdict(a, block_number, LockedInfoByAccount[a],
                                          WindowStatsByConsumer[a])[1])


-----------------------------------------------------------------------------
(* check_window on its own, called with any block, quota, window and stored  *)
(* entry, entries of a later bucket than the current one included.           *)

MaxWindowBlock == 5

MaxWindowQuota == 4

MaxStoredIndex == 3

MaxStoredCalls == 3

\* The quotas handed to check_window: the small ones and the largest.
WindowQuotas == (1..MaxWindowQuota) \cup { U16_MAX }

\* The stored entries handed to check_window: none, or any index with a small
\* count or one of the two largest.
StoredEntries ==
    { None } \cup
        { Some([timeline_index |-> t, used_calls |-> u]) :
              t \in 0..MaxStoredIndex,
              u \in (0..MaxStoredCalls) \cup { U16_MAX - 1, U16_MAX } }

\* Pallet::check_window(current_block, quota, config, window_stats)
call_check_window(current_block, quota, config, window_stats) ==
    /\ last_call' = [ext |-> "check_window", current_block |-> current_block,
                     quota |-> quota, config |-> config, window_stats |-> window_stats,
                     ret |-> check_window(current_block, quota, config, window_stats)]
    /\ UNCHANGED <<block_number, WindowsConfig, QuotaCalculationStrategy, LockedInfoByAccount,
                   WindowStatsByConsumer, EligibleAccounts, events>>

\* The loop of can_make_free_call over the windows configured, on old_stats
call_check_windows(current_block, quota, old_stats) ==
    /\ last_call' = [ext |-> "check_windows", current_block |-> current_block,
                     quota |-> quota, old_stats |-> old_stats,
                     ret |-> check_windows(1, current_block, quota, old_stats, << >>)]
    /\ UNCHANGED <<block_number, WindowsConfig, QuotaCalculationStrategy, LockedInfoByAccount,
                   WindowStatsByConsumer, EligibleAccounts, events>>

\* The stats handed to the loop: none, or the same entry for every window.
StoredStats ==
    { << >> } \cup { [i \in Windows |-> e[1]] : e \in StoredEntries \ { None } }

\* One call for each choice of the arguments.
NextWindow ==
    /\ last_call.ext = "none"
    /\ \/ \E current_block \in 0..MaxWindowBlock, quota \in WindowQuotas,
             config \in CandidateWindows, window_stats \in StoredEntries :
              call_check_window(current_block, quota, config, window_stats)
       \/ \E current_block \in 0..MaxWindowBlock, quota \in WindowQuotas,
             old_stats \in StoredStats :
              call_check_windows(current_block, quota, old_stats)

SpecWindow == InitQuota /\ [][NextWindow]_vars

\* check_window was just called on a window of non-zero period.
WindowChecked == last_call.ext = "check_window" /\ last_call.config.period > 0

\* The bucket of the block check_window was called at.
CheckedBucket == last_call.current_block \div last_call.config.period

\* The cap of the window check_window was called on.
CheckedCap == Max(1, last_call.quota \div last_call.config.quota_ratio)

\* C31: check_window starts from a zero counter exactly when there is no stored
\* entry or its timeline_index is strictly less than the current bucket, and then
\* returns the current bucket with a count of one; a stored entry of the current
\* bucket or of a later one is compared with the cap as it is, and on admission
\* keeps its index with its counter incremented by one.
C31_ResetOnlyOnOlderBucket ==
    WindowChecked =>
        IF last_call.window_stats = None
              \/ last_call.window_stats[1].timeline_index < CheckedBucket
        THEN last_call.ret = Some([timeline_index |-> CheckedBucket, used_calls |-> 1])
        ELSE LET stored == last_call.window_stats[1]
             IN IF stored.used_calls < CheckedCap
                THEN last_call.ret =
                         Some([timeline_index |-> stored.timeline_index,
                               used_calls |-> stored.used_calls + 1])
                ELSE last_call.ret = None

\* A stored entry of a later bucket than the current one, below the cap, came
\* back with its index and one call more.
C31_Witness ==
    /\ WindowChecked
    /\ IsSome(last_call.window_stats)
    /\ last_call.window_stats[1].timeline_index > CheckedBucket
    /\ last_call.window_stats[1].used_calls = 1
    /\ last_call.ret = Some([timeline_index |-> last_call.window_stats[1].timeline_index,
                             used_calls |-> 2])


-----------------------------------------------------------------------------
\* C32: a try_free_call of one account, admitted or not, leaves the stored stats,
\* the locked-stake record and the eligible flag of every other account as they
\* were, and with them the verdict of can_make_free_call for that account.
C32_CallerIsolation ==
    [][ TryStep =>
            \A b \in Accounts \ { last_call'.origin } :
                /\ WindowStatsByConsumer'[b] = WindowStatsByConsumer[b]
                /\ LockedInfoByAccount'[b] = LockedInfoByAccount[b]
                /\ EligibleAccounts'[b] = EligibleAccounts[b]
                /\ (QuotaCalculationStrategy = "FreeCallsCalculationStrategy") =>
                       StakeQuotaAndVerdict(b, block_number', LockedInfoByAccount'[b],
                                            WindowStatsByConsumer'[b])
                           = StakeQuotaAndVerdict(b, block_number, LockedInfoByAccount[b],
                                                  WindowStatsByConsumer[b])
                /\ (QuotaCalculationStrategy = "Unit") =>
                       can_make_free_call(b)' = can_make_free_call(b) ]_vars

\* A call of one account was admitted while the other account, with stats of its
\* own, stood at the cap of a window.
C32_Witness ==
    /\ LastDispatched
    /\ \E b \in Accounts \ { last_call.origin } :
           /\ WindowStatsByConsumer[b] /= << >>
           /\ WindowStatsByConsumer[b] /= WindowStatsByConsumer[last_call.origin]
           /\ \E i \in Windows : AtCap(b, i)


-----------------------------------------------------------------------------
(* One consumer that keeps attempting while blocks keep being produced *)

\* The test strategy with one window and with two nested windows.
InitIdle ==
    /\ block_number = 1
    /\ WindowsConfig \in { << WindowConfig(20, 1) >>,
                           << WindowConfig(4, 1), WindowConfig(2, 2) >> }
    /\ QuotaCalculationStrategy = "TestQuota5"
    /\ LockedInfoByAccount = [a \in Accounts |-> None]
    /\ WindowStatsByConsumer = [a \in Accounts |-> << >>]
    /\ EligibleAccounts = [a \in Accounts |-> FALSE]
    /\ events = << >>
    /\ last_call = [ext |-> "none"]

NextIdle ==
    \/ \E n \in BlockSamples : set_block_number(n)
    \/ \E c \in InnerCalls : try_free_call(Consumer, c) /\ Len(events') <= MaxConsumerEvents

\* Blocks are produced as long as there are any, and the consumer goes on
\* submitting the free call.
SpecIdle ==
    /\ InitIdle
    /\ [][NextIdle]_vars
    /\ WF_vars(\E n \in BlockSamples : set_block_number(n))
    /\ WF_vars(try_free_call(Consumer, "Posts") /\ Len(events') <= MaxConsumerEvents)

\* max_i(period_i)
LongestPeriod ==
    CHOOSE p \in { WindowsConfig[i].period : i \in Windows } :
        \A i \in Windows : WindowsConfig[i].period <= p

\* The first block of the latest bucket stored for c: no call of c was admitted
\* before it without one admitted at or after it.
LastAdmissionNotBefore(c) ==
    LET starts == { WindowStatsByConsumer[c][i].timeline_index * WindowsConfig[i].period :
                        i \in Windows }
    IN CHOOSE s \in starts : \A t \in starts : t <= s

\* The last block produced.
LastSample == CHOOSE n \in BlockSamples : \A m \in BlockSamples : m <= n

\* C33: with a valid configuration and a positive quota, an attempt made
\* max_i(period_i) blocks or more after the bucket starts stored by the caller's
\* last admitted call is admitted; and a caller whose attempt was rejected by the
\* windows is, while the blocks still to come leave every bucket stored for the
\* caller behind, eventually admitted again.
C33_AdmittedAfterIdling ==
    /\ [][ (/\ TryStep /\ FreeCallsFilter(last_call'.call) /\ ValidConfig
            /\ quota_at(last_call'.origin) > 0
            /\ WindowStatsByConsumer[last_call'.origin] /= << >>
            /\ block_number - LastAdmissionNotBefore(last_call'.origin) >= LongestPeriod)
              => Admitted ]_vars
    /\ (/\ LastSkipped /\ FreeCallsFilter(last_call.call)
        /\ \A i \in Windows :
               WindowStatsByConsumer[last_call.origin][i].timeline_index
                   < LastSample \div WindowsConfig[i].period
        /\ Len(events) < MaxConsumerEvents) ~> LastDispatched

\* After five calls in the first bucket of the one window, the sixth was admitted
\* a period later.
C33_Witness ==
    /\ LastDispatched
    /\ WindowsConfig = << WindowConfig(20, 1) >>
    /\ block_number = 20
    /\ NumResults(Consumer) = 6
    /\ WindowStatsByConsumer[Consumer] = << [timeline_index |-> 1, used_calls |-> 1] >>


-----------------------------------------------------------------------------
-----------------------------------------------------------------------------
\* Every period is a positive multiple of the next one.
NestedWindows ==
    /\ ValidConfig
    /\ \A i \in 1..(Len(WindowsConfig) - 1) :
           WindowsConfig[i].period % WindowsConfig[i + 1].period = 0

\* C35: with nested windows the stored counters of an account never increase
\* with the window index, and an admitted call that moves a window to a later
\* bucket leaves every window after it with a count of one.
C35_NestedCountersOrdered ==
    /\ [](NestedWindows =>
            \A a \in Accounts : \A i \in 1..(Len(WindowStatsByConsumer[a]) - 1) :
                WindowStatsByConsumer[a][i].used_calls
                    >= WindowStatsByConsumer[a][i + 1].used_calls)
    /\ [][ (NestedWindows /\ TryStep /\ Admitted
               /\ WindowStatsByConsumer[last_call'.origin] /= << >>) =>
              LET old == WindowStatsByConsumer[last_call'.origin]
                  new == WindowStatsByConsumer'[last_call'.origin]
              IN \A i, j \in Windows :
                     (i < j /\ new[i].timeline_index > old[i].timeline_index) =>
                         new[j].used_calls = 1 ]_vars

\* Under the runtime's windows: four calls counted by the day and the hour, the
\* last of them the first of the second five minutes.
C35_Witness ==
    /\ WindowsConfig = FREE_CALLS_WINDOWS_CONFIG
    /\ LastDispatched
    /\ WindowStatsByConsumer[Consumer] =
           << [timeline_index |-> 0, used_calls |-> 4],
              [timeline_index |-> 0, used_calls |-> 4],
              [timeline_index |-> 1, used_calls |-> 1] >>


-----------------------------------------------------------------------------
\* C36: every stored entry of every account counts at least one call.
C36_NoZeroCounterStored ==
    \A a \in Accounts : \A i \in 1..Len(WindowStatsByConsumer[a]) :
        WindowStatsByConsumer[a][i].used_calls >= 1

\* The second call of an account restarted one window at one and took the other
\* to two.
C36_Witness ==
    /\ LastDispatched
    /\ NumResults(last_call.origin) = 2
    /\ \E i, j \in 1..Len(WindowStatsByConsumer[last_call.origin]) :
           /\ WindowStatsByConsumer[last_call.origin][i].used_calls = 2
           /\ WindowStatsByConsumer[last_call.origin][j].used_calls = 1
           /\ WindowStatsByConsumer[last_call.origin][j].timeline_index > 0


-----------------------------------------------------------------------------
\* C37: validate answers Valid for every call that is not a try_free_call of the
\* pallet, another call of the pallet included, also for a caller whom
\* can_make_free_call would refuse.
C37_OnlyTryFreeCallConstrained ==
    (/\ last_call.ext = "validate"
     /\ ~(last_call.xt.pallet = "FreeCalls" /\ last_call.xt.function = "try_free_call"))
        => last_call.ret = <<"Valid">>

\* The pallet's other call was found valid for a caller without a free call left.
C37_Witness ==
    /\ last_call.ext = "validate"
    /\ last_call.xt = OtherCall("FreeCalls", "add_eligible_accounts")
    /\ last_call.ret = <<"Valid">>
    /\ WindowStatsByConsumer[last_call.who] /= << >>
    /\ ~IsSome(can_make_free_call(last_call.who))


-----------------------------------------------------------------------------
\* The quota the strategy yields for the lock asked about at block t, zero for none.
quota_at_block(t) ==
    LET quota == calculate(last_call.consumer, t, last_call.locked_info)
    IN IF IsSome(quota) THEN quota[1] ELSE 0

\* C38: the utilization percent of the age asked about lies in 15..100 and is not
\* above that of any greater age; and for a lock without expiry the quota is not
\* above the quota the same lock yields at any later block.
C38_UtilizationMonotone ==
    Asked =>
        /\ AskedLockCounts =>
               LET percent == get_utilization_percent(AskedAge)
               IN /\ percent \in 15..100
                  /\ \A age \in QuotaAges :
                         age >= AskedAge => get_utilization_percent(age) >= percent
        /\ (IsSome(last_call.locked_info) /\ AskedLock.expires_at = None) =>
               \A t \in QuotaBlocks :
                   t >= last_call.current_block =>
                       quota_at_block(t) >= quota_at_block(last_call.current_block)

\* Ten tokens locked for twelve months without expiry: the full utilization.
C38_Witness ==
    /\ Asked /\ AskedLockCounts
    /\ AskedLock.expires_at = None
    /\ AskedLock.locked_amount = Balance(10 * DOLLARS)
    /\ AskedAge = 12 * MONTHS
    /\ get_utilization_percent(AskedAge) = 100
    /\ last_call.ret = Some(100)


-----------------------------------------------------------------------------
\* The count check_window starts from: zero without a stored entry or with one of
\* an older bucket, the stored count otherwise.
CheckedCount ==
    IF last_call.window_stats = None
          \/ last_call.window_stats[1].timeline_index < CheckedBucket
    THEN 0
    ELSE last_call.window_stats[1].used_calls

\* C39: whenever check_window admits, the count it starts from is below the cap,
\* the cap is at most 65535, and the count returned is exactly one more, so the
\* saturating addition never saturates; and the loop over the windows gives up
\* only when check_window refuses a window, never at the push, and otherwise
\* returns one entry for every window.
C39_CounterNeverSaturates ==
    /\ (WindowChecked /\ IsSome(last_call.ret)) =>
           /\ CheckedCount < CheckedCap
           /\ CheckedCap <= U16_MAX
           /\ last_call.ret[1].used_calls = CheckedCount + 1
    /\ (last_call.ext = "check_windows") =>
           IF \E i \in Windows :
                  ~IsSome(check_window(last_call.current_block, last_call.quota,
                                       WindowsConfig[i], vec_get(last_call.old_stats, i)))
           THEN last_call.ret = None
           ELSE IsSome(last_call.ret) /\ Len(last_call.ret[1]) = Len(WindowsConfig)

\* The largest quota under a window of ratio 1, a stored count of 65534: admitted,
\* with the count at 65535.
C39_Witness ==
    /\ WindowChecked
    /\ last_call.quota = U16_MAX
    /\ last_call.config.quota_ratio = 1
    /\ CheckedCount = U16_MAX - 1
    /\ IsSome(last_call.ret)
    /\ last_call.ret[1].used_calls = U16_MAX

====
